---------------------------- MODULE Spec2Model ----------------------------
(***************************************************************************)
(* Model of the nextory search demo server (server/index.js, first        *)
(* variant: src/server/nameVariants.js lines 353-758, second variant:      *)
(* lines 760-1112): the federated /api/suggest handler and the /api/search *)
(* handler, with the engine client as an external collaborator whose       *)
(* results are nondeterministic; and of the name-variant service           *)
(* (nameVariants.js, family-caching variant: lines 1-140, pre-seeded       *)
(* variant: lines 142-351), called one call after the other.               *)
(*                                                                         *)
(* Strings are sequences of one-character strings, so that the regular     *)
(* expression, trim, split, toLowerCase, includes and startsWith are       *)
(* computed character by character as the JavaScript built-ins do.         *)
(*   null yearPattern (String.match without a match)  is  << >>            *)
(*   an absent query parameter (undefined)            is  Undefined        *)
(***************************************************************************)
EXTENDS Integers, Sequences, FiniteSets, TLC

(***************************************************************************)
(* Bounds of the model.                                                    *)
(***************************************************************************)
MaxQLen == 5
MaxBuckets == 2

(***************************************************************************)
(* Characters.                                                             *)
(***************************************************************************)
Digits == {"0", "1", "2", "3", "4", "5", "6", "7", "8", "9"}
LowerAlphabet ==
  <<"a", "b", "c", "d", "e", "f", "g", "h", "i", "j", "k", "l", "m",
     "n", "o", "p", "q", "r", "s", "t", "u", "v", "w", "x", "y", "z">>
UpperAlphabet ==
  <<"A", "B", "C", "D", "E", "F", "G", "H", "I", "J", "K", "L", "M",
     "N", "O", "P", "Q", "R", "S", "T", "U", "V", "W", "X", "Y", "Z">>
LowerLetters == {LowerAlphabet[i] : i \in DOMAIN LowerAlphabet}
UpperLetters == {UpperAlphabet[i] : i \in DOMAIN UpperAlphabet}
\* \w of a JavaScript regular expression: [A-Za-z0-9_]
WordChars == Digits \cup LowerLetters \cup UpperLetters \cup {"_"}
\* \s of a regular expression, and what String.prototype.trim strips
WhiteSpace == {" ", "\t", "\n"}

Undefined == <<"undefined">>

\* `!v` for a query parameter: undefined or the empty string
Falsy(v) == v = Undefined \/ v = <<>>

StrLen(v) == Len(v)

\* All strings over alphabet A of length at most n
RECURSIVE StringsUpTo(_, _)
StringsUpTo(A, n) ==
  IF n = 0 THEN {<<>>}
  ELSE LET shorter == StringsUpTo(A, n - 1)
       IN  shorter \cup {Append(s, c) : s \in {t \in shorter : Len(t) = n - 1}, c \in A}

(***************************************************************************)
(* JavaScript string built-ins.                                            *)
(***************************************************************************)
LowerChar(c) ==
  IF c \in UpperLetters
  THEN LowerAlphabet[CHOOSE i \in DOMAIN UpperAlphabet : UpperAlphabet[i] = c]
  ELSE c

\* String.prototype.toLowerCase
ToLowerCase(s) == [i \in 1..Len(s) |-> LowerChar(s[i])]

RECURSIVE TrimStart(_)
TrimStart(s) ==
  IF s # <<>> /\ Head(s) \in WhiteSpace THEN TrimStart(Tail(s)) ELSE s

RECURSIVE TrimEnd(_)
TrimEnd(s) ==
  IF s # <<>> /\ s[Len(s)] \in WhiteSpace THEN TrimEnd(SubSeq(s, 1, Len(s) - 1)) ELSE s

\* String.prototype.trim
Trim(s) == TrimEnd(TrimStart(s))

\* s.startsWith(p)
StartsWith(s, p) == Len(p) <= Len(s) /\ SubSeq(s, 1, Len(p)) = p

\* s.includes(t): scan for t from every start position, left to right
RECURSIVE IncludesFrom(_, _, _)
IncludesFrom(s, t, i) ==
  IF i + Len(t) - 1 > Len(s) THEN FALSE
  ELSE IF SubSeq(s, i, i + Len(t) - 1) = t THEN TRUE
  ELSE IncludesFrom(s, t, i + 1)

Includes(s, t) == IncludesFrom(s, t, 1)

\* s.split(sep) for a one-character separator: always at least one piece
RECURSIVE SplitFrom(_, _, _, _)
SplitFrom(s, sep, i, cur) ==
  IF i > Len(s) THEN <<cur>>
  ELSE IF s[i] = sep THEN <<cur>> \o SplitFrom(s, sep, i + 1, <<>>)
  ELSE SplitFrom(s, sep, i + 1, Append(cur, s[i]))

Split(s, sep) == SplitFrom(s, sep, 1, <<>>)

\* s.split(/\s+/): pieces between maximal whitespace runs (empty pieces at the ends)
RECURSIVE SplitWsFrom(_, _, _)
SplitWsFrom(s, i, cur) ==
  IF i > Len(s) THEN <<cur>>
  ELSE IF s[i] \in WhiteSpace
       THEN IF i > 1 /\ s[i - 1] \in WhiteSpace
            THEN SplitWsFrom(s, i + 1, cur)
            ELSE <<cur>> \o SplitWsFrom(s, i + 1, <<>>)
       ELSE SplitWsFrom(s, i + 1, Append(cur, s[i]))

SplitWhitespace(s) == SplitWsFrom(s, 1, <<>>)

\* .filter(Boolean) on an array of strings: drops the empty strings
NonEmptyStr(s) == s # <<>>
FilterBoolean(arr) == SelectSeq(arr, NonEmptyStr)

\* String(n) for a non-negative integer n
DigitChar(d) ==
  CASE d = 0 -> "0" [] d = 1 -> "1" [] d = 2 -> "2" [] d = 3 -> "3" [] d = 4 -> "4"
    [] d = 5 -> "5" [] d = 6 -> "6" [] d = 7 -> "7" [] d = 8 -> "8" [] OTHER -> "9"

RECURSIVE NumToString(_)
NumToString(n) ==
  IF n < 10 THEN <<DigitChar(n)>> ELSE Append(NumToString(n \div 10), DigitChar(n % 10))

DigitVal(c) ==
  CASE c = "0" -> 0 [] c = "1" -> 1 [] c = "2" -> 2 [] c = "3" -> 3 [] c = "4" -> 4
    [] c = "5" -> 5 [] c = "6" -> 6 [] c = "7" -> 7 [] c = "8" -> 8 [] OTHER -> 9

(***************************************************************************)
(* The year regular expression /\b(19|20)\d{0,2}\b/g  (lines 426-427).     *)
(***************************************************************************)
\* \b at position i (between s[i] and s[i+1]; 0 is the start, Len(s) the end)
WordBoundary(s, i) ==
  LET before == i >= 1 /\ s[i] \in WordChars
      after  == i < Len(s) /\ s[i + 1] \in WordChars
  IN  before # after

\* (19|20) at index i
CenturyAt(s, i) ==
  /\ i + 1 <= Len(s)
  /\ \/ s[i] = "1" /\ s[i + 1] = "9"
     \/ s[i] = "2" /\ s[i + 1] = "0"

\* \d{k} at index i
DigitsAt(s, i, k) ==
  /\ i + k - 1 <= Len(s)
  /\ \A j \in i..(i + k - 1) : s[j] \in Digits

\* \d{0,2}\b starting at index i: the greedy quantifier tries 2, then 1, then 0
\* digits; the result is the number of digits taken, or -1 when all three fail.
TailDigits(s, i) ==
  IF DigitsAt(s, i, 2) /\ WordBoundary(s, i + 1) THEN 2
  ELSE IF DigitsAt(s, i, 1) /\ WordBoundary(s, i) THEN 1
  ELSE IF WordBoundary(s, i - 1) THEN 0
  ELSE -1

\* The expression without its leading \b: /(19|20)\d{0,2}\b/g
YearMatchLenNoLeadingBoundary(s, i) ==
  IF CenturyAt(s, i) /\ TailDigits(s, i + 2) >= 0
  THEN 2 + TailDigits(s, i + 2)
  ELSE 0

\* Length of the match of the whole expression starting at index i, 0 if none
YearMatchLen(s, i) ==
  IF WordBoundary(s, i - 1) /\ CenturyAt(s, i) /\ TailDigits(s, i + 2) >= 0
  THEN 2 + TailDigits(s, i + 2)
  ELSE 0

\* The /g scan: all matches left to right, each resuming after the previous
\* match; a sequence of <<start, length>>.
RECURSIVE YearMatchesFrom(_, _)
YearMatchesFrom(s, i) ==
  IF i > Len(s) THEN <<>>
  ELSE LET n == YearMatchLen(s, i)
       IN  IF n > 0 THEN <<(<<i, n>>)>> \o YearMatchesFrom(s, i + n)
           ELSE YearMatchesFrom(s, i + 1)

YearMatches(s) == YearMatchesFrom(s, 1)

\* q.match(/\b(19|20)\d{0,2}\b/g): the matched substrings; null is << >>
MatchYearPattern(q) ==
  LET ms == YearMatches(q)
  IN  [k \in 1..Len(ms) |-> SubSeq(q, ms[k][1], ms[k][1] + ms[k][2] - 1)]

\* q.replace(/\b(19|20)\d{0,2}\b/g, ''): q without the matched ranges
RECURSIVE RemoveRanges(_, _, _)
RemoveRanges(s, ms, i) ==
  IF i > Len(s) THEN <<>>
  ELSE IF ms # <<>> /\ Head(ms)[1] = i
       THEN RemoveRanges(s, Tail(ms), i + Head(ms)[2])
       ELSE <<s[i]>> \o RemoveRanges(s, ms, i + 1)

ReplaceYearPattern(q) == RemoveRanges(q, YearMatches(q), 1)

(***************************************************************************)
(* Numbers.  Number(s) and parseInt(s) on the strings of the model: an     *)
(* unsigned decimal integer, Infinity, or NaN (the strings of the model    *)
(* hold no sign, decimal point, exponent or radix prefix).                 *)
(***************************************************************************)
NaN == -1000000
Infinity == 1000000

RECURSIVE DigitsValue(_)
DigitsValue(s) ==
  IF s = <<>> THEN 0 ELSE DigitsValue(SubSeq(s, 1, Len(s) - 1)) * 10 + DigitVal(s[Len(s)])

\* Number(s): whitespace is trimmed, the empty string is 0, the numeral
\* Infinity is the number Infinity, anything else that is not a numeral is NaN
ToNumber(s) ==
  LET t == Trim(s)
  IN  IF t = <<>> THEN 0
      ELSE IF \A i \in 1..Len(t) : t[i] \in Digits THEN DigitsValue(t)
      ELSE IF t = <<"I", "n", "f", "i", "n", "i", "t", "y">> THEN Infinity
      ELSE NaN

\* Boolean(n) for a number: 0 and NaN are falsy
TruthyNumber(n) == n # 0 /\ n # NaN

\* parseInt(v): leading whitespace skipped, then the longest run of digits
RECURSIVE LeadingDigits(_)
LeadingDigits(s) ==
  IF s # <<>> /\ Head(s) \in Digits THEN <<Head(s)>> \o LeadingDigits(Tail(s)) ELSE <<>>

ParseInt(s) ==
  LET d == LeadingDigits(TrimStart(s))
  IN  IF d = <<>> THEN NaN ELSE DigitsValue(d)

(***************************************************************************)
(* Process state.                                                          *)
(***************************************************************************)
VARIABLES
  serverVariant,      \* 1: the server of lines 353-758, 2: the server of lines 760-1112
  nameService,        \* "family": nameVariants.js of lines 1-140, "preseeded": of lines 142-351
  cache,              \* line 4: the Map of the name-variant service, name -> list of names
  lookup,             \* the getNameVariants call in progress or last completed
  overlap,            \* a second getNameVariants call, started while the first awaits
  history,            \* what completed getNameVariants calls have shown so far
  isOpenSearch,       \* line 368: which client library esClient is
  hasPhoneticFields,  \* line 382: the process-wide capability flag
  phoneticProbe,      \* "pending" until checkPhoneticSupport (line 398) has completed
  pc,                 \* "idle" | "suggestAwait" | "searchAwait" | "done"
  endpoint,           \* "none" | "suggest" | "search": the handler of the current request
  req,                \* req.query of the current request
  locals,             \* the handler's local constants computed before its await
  promises,           \* the engine searches of the request: slot -> [state, value]
  engineResult,       \* slot -> the result the engine produced (before the client's wrapping)
  matching,           \* the documents of the index that match the text of the answered search
  allPromise,         \* the Promise.all of the suggest handler
  calls,              \* the esClient.search requests issued for the current request
  response,           \* what res.json sent, NoResponse before
  variantsMap,        \* part_000 line 452: first name -> the list its lookup returned
  seedRun,            \* the run of the seed script: where main() is, and what it has found
  indices,            \* the engine: index name -> the documents of the index
  client,             \* part_002 lines 4-14: the state object of the page
  dropdown,           \* the suggestions dropdown: shown or not, and the query it was rendered for
  debounceTimer,      \* part_002 line 89: the query of the pending timer, NoTimer without one
  fetches,            \* the suggest requests in flight, the one sent last marked newest
  searches,           \* the search requests in flight, the one sent last marked newest
  results,            \* the results area of the page: what it shows, and the page buttons
  clientEvent         \* the last handler of the page that ran, and the state it found

nameVars == <<nameService, cache, lookup, history, overlap>>
serverVars == <<serverVariant, isOpenSearch, hasPhoneticFields, phoneticProbe, pc, endpoint,
                req, locals, promises, engineResult, matching, allPromise, calls, response>>
seedVars == <<variantsMap, seedRun>>
engineVars == <<indices>>
clientVars == <<client, dropdown, debounceTimer, fetches, searches, results, clientEvent>>
serverSide == <<nameVars, serverVars, seedVars, engineVars>>
vars == <<nameVars, serverVars, seedVars, engineVars, clientVars>>

INDEX_NAME == "books"
Null == "null"
NoResponse == [status |-> 0]
Categories == <<"authors", "titles", "genres", "years">>
NoLocals == [none |-> TRUE]
NoResult == [none |-> TRUE]
NoPromise == [state |-> "none", value |-> NoResult]
AllIdle == [state |-> "none", reason |-> NoResult]

\* a?.b?.c on records: the field path exists
Has(r, f) == f \in DOMAIN r

(***************************************************************************)
(* The engine client.                                                      *)
(***************************************************************************)
\* What esClient.search resolves with when the engine produced R: the
\* OpenSearch client wraps the response in {body}, the Elasticsearch one does not
ClientReturn(R) == IF isOpenSearch THEN [body |-> R] ELSE R

\* lines 582-583 and 725: result.body || result
unwrapIdentity(result) == result
unwrap(result) == IF Has(result, "body") THEN result.body ELSE result

(***************************************************************************)
(* /api/suggest: the part before the await (lines 411-574).                *)
(***************************************************************************)
\* lines 419-423
ParseList(param) == IF Falsy(param) THEN <<>> ELSE Split(param, ",")

ParseYears(param) ==
  IF Falsy(param) THEN <<>>
  ELSE LET nums == [i \in 1..Len(Split(param, ",")) |-> ToNumber(Split(param, ",")[i])]
       IN  SelectSeq(nums, TruthyNumber)

ParseActiveFilters(r) ==
  [authors |-> ParseList(r.authors),
   genres  |-> ParseList(r.genres),
   years   |-> ParseYears(r.years)]

\* lines 431-443
buildFilterClause(activeFilters) ==
  (IF Len(activeFilters.authors) > 0
     THEN <<[field |-> "author.keyword", values |-> activeFilters.authors]>> ELSE <<>>)
  \o (IF Len(activeFilters.genres) > 0
     THEN <<[field |-> "genre", values |-> activeFilters.genres]>> ELSE <<>>)
  \o (IF Len(activeFilters.years) > 0
     THEN <<[field |-> "releaseYear", values |-> activeFilters.years]>> ELSE <<>>)

\* The clause list with the category's own filter left in
WithoutTermsKeepsAll(filters, field) == filters

\* .filter((f) => !f.terms?.[field])
WithoutTerms(filters, field) == SelectSeq(filters, LAMBDA f : f.field # field)

Match(field, query, boost) ==
  [kind |-> "match", field |-> field, query |-> query, boost |-> boost]

\* lines 450-480
AuthorsQuery(textQuery, activeFilters, phonetic) ==
  [index  |-> INDEX_NAME,
   size   |-> 0,
   should |-> <<Match("author.autocomplete", textQuery, "1"),
                Match("nameVariants", textQuery, "0.8")>>
              \o (IF phonetic THEN <<Match("author.phonetic", textQuery, "0.5")>> ELSE <<>>),
   filter |-> WithoutTerms(buildFilterClause(activeFilters), "author.keyword"),
   aggs   |-> [name |-> "authors", field |-> "author.keyword", size |-> 5, order |-> "count"]]

\* lines 485-513
TitlesQuery(textQuery, activeFilters, phonetic) ==
  [index  |-> INDEX_NAME,
   size   |-> 5,
   should |-> <<Match("title.autocomplete", textQuery, "2"),
                Match("author.autocomplete", textQuery, "1"),
                Match("nameVariants", textQuery, "0.8")>>
              \o (IF phonetic THEN <<Match("title.phonetic", textQuery, "0.5"),
                                     Match("author.phonetic", textQuery, "0.3")>>
                  ELSE <<>>),
   filter |-> buildFilterClause(activeFilters),
   aggs   |-> [name |-> "none"]]

\* lines 518-542
GenresQuery(queryTerms, activeFilters) ==
  [index  |-> INDEX_NAME,
   size   |-> 0,
   should |-> [i \in 1..Len(queryTerms) |->
                 [kind |-> "prefix", field |-> "genre", query |-> queryTerms[i],
                  boost |-> "1"]],
   filter |-> WithoutTerms(buildFilterClause(activeFilters), "genre"),
   aggs   |-> [name |-> "genres", field |-> "genre", size |-> 5, order |-> "count"]]

\* lines 547-572
YearsQuery(yearPattern, activeFilters) ==
  [index  |-> INDEX_NAME,
   size   |-> 0,
   should |-> [i \in 1..Len(yearPattern) |->
                 Match("releaseYear.autocomplete", yearPattern[i], "1")],
   filter |-> WithoutTerms(buildFilterClause(activeFilters), "releaseYear"),
   aggs   |-> [name |-> "years", field |-> "releaseYear", size |-> 10, order |-> "key desc"]]

\* Gates as they would be with a threshold of 1, and with a match result that
\* is an (always truthy) array instead of null
TextGateNonEmpty(textQuery) == StrLen(textQuery) >= 1
YearGateTruthyArray(yearPattern) == TRUE

\* The gates of the four conditional expressions (lines 449, 484, 517, 546)
TextGate(textQuery) == StrLen(textQuery) >= 2
YearGate(yearPattern) == yearPattern # <<>>

\* The value each conditional yields when its query is not issued
\* (lines 481, 514, 543, 573)
Placeholder(c) ==
  IF c = "titles" THEN [hits |-> [hits |-> <<>>]]
  ELSE [aggregations |-> [n \in {c} |-> [buckets |-> <<>>]]]

\* lines 425-428
SuggestLocals(r) ==
  LET textQuery == Trim(ReplaceYearPattern(r.q))
  IN  [activeFilters |-> ParseActiveFilters(r),
       yearPattern   |-> MatchYearPattern(r.q),
       textQuery     |-> textQuery,
       queryTerms    |-> FilterBoolean(SplitWhitespace(ToLowerCase(textQuery)))]

Issued(l, c) ==
  IF c = "years" THEN YearGate(l.yearPattern) ELSE TextGate(l.textQuery)

QueryBody(l, c, phonetic) ==
  CASE c = "authors" -> AuthorsQuery(l.textQuery, l.activeFilters, phonetic)
    [] c = "titles"  -> TitlesQuery(l.textQuery, l.activeFilters, phonetic)
    [] c = "genres"  -> GenresQuery(l.queryTerms, l.activeFilters)
    [] OTHER         -> YearsQuery(l.yearPattern, l.activeFilters)

\* The esClient.search calls of one suggest request, in evaluation order
SuggestCalls(l, phonetic) ==
  LET issued == SelectSeq(Categories, LAMBDA c : Issued(l, c))
  IN  [i \in 1..Len(issued) |->
         [category |-> issued[i], body |-> QueryBody(l, issued[i], phonetic)]]

\* The second server (lines 830-891): the phonetic clauses are written into the
\* queries, and the titles search matches on the title only
AuthorsQuery2(textQuery, activeFilters) ==
  [index  |-> INDEX_NAME,
   size   |-> 0,
   should |-> <<Match("author.autocomplete", textQuery, "1"),
                Match("author.phonetic", textQuery, "0.5"),
                Match("nameVariants", textQuery, "0.8")>>,
   filter |-> WithoutTerms(buildFilterClause(activeFilters), "author.keyword"),
   aggs   |-> [name |-> "authors", field |-> "author.keyword", size |-> 5, order |-> "count"]]

TitlesQuery2(textQuery, activeFilters) ==
  [index  |-> INDEX_NAME,
   size   |-> 5,
   should |-> <<Match("title.autocomplete", textQuery, "1"),
                Match("title.phonetic", textQuery, "0.5")>>,
   filter |-> buildFilterClause(activeFilters),
   aggs   |-> [name |-> "none"]]

QueryBody2(l, c) ==
  CASE c = "authors" -> AuthorsQuery2(l.textQuery, l.activeFilters)
    [] c = "titles"  -> TitlesQuery2(l.textQuery, l.activeFilters)
    [] OTHER         -> QueryBody(l, c, FALSE)

SuggestCalls2(l) ==
  LET issued == SelectSeq(Categories, LAMBDA c : Issued(l, c))
  IN  [i \in 1..Len(issued) |->
         [category |-> issued[i], body |-> QueryBody2(l, issued[i])]]

\* line 414 (second server: line 797)
TooShort(q) == Falsy(q) \/ StrLen(q) < 2

\* Promise.all (line 447) over an array of promises and plain values, seen when
\* slot c settles: rejected with the first rejection, fulfilled once nothing is
\* pending, and settled only once
PromiseAllIgnoringFailures(all, ps, c) ==
  IF all.state # "pending" THEN all
  ELSE IF \A d \in DOMAIN ps : ps[d].state # "pending"
       THEN [state |-> "fulfilled", reason |-> NoResult]
  ELSE all

PromiseAll(all, ps, c) ==
  IF all.state # "pending" THEN all
  ELSE IF ps[c].state = "rejected"
       THEN [state |-> "rejected", reason |-> ps[c].value]
  ELSE IF \A d \in DOMAIN ps : ps[d].state # "pending"
       THEN [state |-> "fulfilled", reason |-> NoResult]
  ELSE all

(***************************************************************************)
(* /api/suggest: the part after the await (lines 576-638).                 *)
(***************************************************************************)
\* lines 577-580
findMatchedTermsCaseSensitive(value, terms) ==
  SelectSeq(terms, LAMBDA term : Includes(value, term))

findMatchedTerms(value, terms) ==
  LET valueLower == ToLowerCase(value)
  IN  SelectSeq(terms, LAMBDA term : Includes(valueLower, term))

\* data.aggregations?.[name]?.buckets || []
Buckets(data, name) ==
  IF Has(data, "aggregations") /\ Has(data.aggregations, name)
     /\ Has(data.aggregations[name], "buckets")
  THEN data.aggregations[name].buckets
  ELSE <<>>

\* data.hits?.hits || []
Hits(data) ==
  IF Has(data, "hits") /\ Has(data.hits, "hits") THEN data.hits.hits ELSE <<>>

\* lines 591-595 and 606-610
BucketSuggestions(data, name, queryTerms) ==
  LET bs == Buckets(data, name)
  IN  [i \in 1..Len(bs) |->
         [value |-> bs[i].key, count |-> bs[i].doc_count,
          matchedTerms |-> findMatchedTerms(bs[i].key, queryTerms)]]

\* lines 597-604
TitleSuggestions(data, queryTerms) ==
  LET hs == Hits(data)
  IN  [i \in 1..Len(hs) |->
         [id |-> hs[i]._id, value |-> hs[i]._source.title,
          author |-> hs[i]._source.author, year |-> hs[i]._source.releaseYear,
          rating |-> hs[i]._source.rating,
          matchedTerms |-> findMatchedTerms(hs[i]._source.title, queryTerms)]]

\* lines 612-623
YearsListIncludes(data, yearPattern) ==
  LET bs == Buckets(data, "years")
      yearsList == [i \in 1..Len(bs) |-> [value |-> bs[i].key, count |-> bs[i].doc_count]]
  IN  IF yearPattern # <<>>
      THEN SelectSeq(yearsList, LAMBDA y :
             \E k \in 1..Len(yearPattern) : Includes(NumToString(y.value), yearPattern[k]))
      ELSE yearsList

YearsList(data, yearPattern) ==
  LET bs == Buckets(data, "years")
      yearsList == [i \in 1..Len(bs) |-> [value |-> bs[i].key, count |-> bs[i].doc_count]]
  IN  IF yearPattern # <<>>
      THEN SelectSeq(yearsList, LAMBDA y :
             \E k \in 1..Len(yearPattern) : StartsWith(NumToString(y.value), yearPattern[k]))
      ELSE yearsList

\* lines 625-634: the body built from the four (already unwrapped) results
SuggestBody(r, l, data) ==
  [query         |-> r.q,
   textQuery     |-> l.textQuery,
   yearPattern   |-> l.yearPattern,
   authors       |-> BucketSuggestions(data["authors"], "authors", l.queryTerms),
   titles        |-> TitleSuggestions(data["titles"], l.queryTerms),
   genres        |-> BucketSuggestions(data["genres"], "genres", l.queryTerms),
   years         |-> YearsList(data["years"], l.yearPattern),
   activeFilters |-> l.activeFilters]

\* line 415
EmptyBody(q) ==
  [authors |-> <<>>, titles |-> <<>>, genres |-> <<>>, years |-> <<>>, query |-> q]

\* lines 635-638: error.meta?.body?.error || null
ErrorDetails(error) ==
  IF Has(error, "meta") /\ Has(error.meta, "body") /\ Has(error.meta.body, "error")
  THEN error.meta.body.error ELSE Null

SuggestErrorBody(error) == [error |-> error.message, details |-> ErrorDetails(error)]

\* The second server (line 1003): the message only
SuggestErrorBody2(error) == [error |-> error.message]

(***************************************************************************)
(* /api/search (lines 642-749).                                            *)
(***************************************************************************)
NumSub(a, b) == IF a = NaN \/ b = NaN THEN NaN ELSE a - b
NumMul(a, b) == IF a = NaN \/ b = NaN THEN NaN ELSE a * b

DEFAULT_PAGE == 1
DEFAULT_SIZE == 12

\* parseInt(page), parseInt(size) with the defaults of line 643
PageOf(r) == IF r.page = Undefined THEN DEFAULT_PAGE ELSE ParseInt(r.page)
SizeOf(r) == IF r.size = Undefined THEN DEFAULT_SIZE ELSE ParseInt(r.size)

\* lines 644-649
SearchLocalsFromPageTimesSize(r) ==
  [from       |-> NumMul(PageOf(r), SizeOf(r)),
   authorList |-> ParseList(r.authors),
   genreList  |-> ParseList(r.genres),
   yearList   |-> ParseYears(r.years)]

SearchLocals(r) ==
  [from       |-> NumMul(NumSub(PageOf(r), 1), SizeOf(r)),
   authorList |-> ParseList(r.authors),
   genreList  |-> ParseList(r.genres),
   yearList   |-> ParseYears(r.years)]

\* lines 656-678
SearchMust(q, phonetic) ==
  IF ~Falsy(q) /\ Trim(q) # <<>>
  THEN <<[should |-> <<Match("title.autocomplete", q, "3"),
                       Match("author.autocomplete", q, "2"),
                       Match("nameVariants", q, "0.8")>>
                     \o (IF phonetic THEN <<Match("title.phonetic", q, "1"),
                                            Match("author.phonetic", q, "0.5")>>
                         ELSE <<>>),
          minimum_should_match |-> 1]>>
  ELSE <<>>

\* lines 680-689
SearchFilterWithoutGenre(l) ==
  (IF Len(l.authorList) > 0
     THEN <<[field |-> "author.keyword", values |-> l.authorList]>> ELSE <<>>)
  \o (IF Len(l.yearList) > 0
     THEN <<[field |-> "releaseYear", values |-> l.yearList]>> ELSE <<>>)

SearchFilter(l) ==
  (IF Len(l.authorList) > 0
     THEN <<[field |-> "author.keyword", values |-> l.authorList]>> ELSE <<>>)
  \o (IF Len(l.genreList) > 0
     THEN <<[field |-> "genre", values |-> l.genreList]>> ELSE <<>>)
  \o (IF Len(l.yearList) > 0
     THEN <<[field |-> "releaseYear", values |-> l.yearList]>> ELSE <<>>)

\* lines 691-702
SortOptionsYearAscending(sort) ==
  CASE sort = "rating"   -> <<[field |-> "rating", order |-> "desc"]>>
    [] sort = "title"    -> <<[field |-> "title.keyword", order |-> "asc"]>>
    [] sort = "year"     -> <<[field |-> "releaseYear", order |-> "asc"]>>
    [] sort = "trending" -> <<[field |-> "trending", order |-> "desc"]>>
    [] OTHER             -> <<[field |-> "_score", order |-> "default"]>>

SortOptions(sort) ==
  CASE sort = "rating"   -> <<[field |-> "rating", order |-> "desc"]>>
    [] sort = "title"    -> <<[field |-> "title.keyword", order |-> "asc"]>>
    [] sort = "year"     -> <<[field |-> "releaseYear", order |-> "desc"]>>
    [] sort = "trending" -> <<[field |-> "trending", order |-> "desc"]>>
    [] OTHER             -> <<[field |-> "_score", order |-> "default"]>>

\* lines 704-722
SearchQueryTenBuckets(r, l, phonetic) ==
  [index  |-> INDEX_NAME,
   from   |-> l.from,
   size   |-> SizeOf(r),
   must   |-> IF SearchMust(r.q, phonetic) # <<>> THEN SearchMust(r.q, phonetic)
              ELSE <<[match_all |-> TRUE]>>,
   filter |-> SearchFilter(l),
   sort   |-> SortOptions(r.sort),
   aggs   |-> <<[name |-> "authors", field |-> "author.keyword", size |-> 10, order |-> "count"],
                [name |-> "genres", field |-> "genre", size |-> 10, order |-> "count"],
                [name |-> "years", field |-> "releaseYear", size |-> 10, order |-> "key desc"]>>]

SearchQuery(r, l, phonetic) ==
  [index  |-> INDEX_NAME,
   from   |-> l.from,
   size   |-> SizeOf(r),
   must   |-> IF SearchMust(r.q, phonetic) # <<>> THEN SearchMust(r.q, phonetic)
              ELSE <<[match_all |-> TRUE]>>,
   filter |-> SearchFilter(l),
   sort   |-> SortOptions(r.sort),
   aggs   |-> <<[name |-> "authors", field |-> "author.keyword", size |-> 20, order |-> "count"],
                [name |-> "genres", field |-> "genre", size |-> 20, order |-> "count"],
                [name |-> "years", field |-> "releaseYear", size |-> 20, order |-> "key desc"]>>]

\* The second server (lines 1021-1035, 1061-1079): the two phonetic clauses are
\* written into the should list
SearchMust2(q) ==
  IF ~Falsy(q) /\ Trim(q) # <<>>
  THEN <<[should |-> <<Match("title.autocomplete", q, "3"),
                       Match("title.phonetic", q, "1"),
                       Match("author.autocomplete", q, "2"),
                       Match("author.phonetic", q, "0.5"),
                       Match("nameVariants", q, "0.8")>>,
          minimum_should_match |-> 1]>>
  ELSE <<>>

SearchQuery2(r, l) ==
  [SearchQuery(r, l, FALSE) EXCEPT
     !.must = IF SearchMust2(r.q) # <<>> THEN SearchMust2(r.q) ELSE <<[match_all |-> TRUE]>>]

\* result.hits.hits and result.hits.total.value are read without ?. (lines 727, 734)
SearchReadable(result) ==
  /\ Has(result, "hits")
  /\ Has(result.hits, "hits")
  /\ Has(result.hits, "total")

\* lines 727-731: {id, score, ...hit._source}; a later spread key wins
SearchHit(hit) == hit._source @@ [id |-> hit._id, score |-> hit._score]

\* lines 733-744
SearchBody(r, l, result) ==
  [total   |-> result.hits.total.value,
   page    |-> PageOf(r),
   size    |-> SizeOf(r),
   results |-> [i \in 1..Len(result.hits.hits) |-> SearchHit(result.hits.hits[i])],
   facets  |-> [authors |-> Buckets(result, "authors"),
                genres  |-> Buckets(result, "genres"),
                years   |-> Buckets(result, "years")],
   activeFilters |-> [authors |-> l.authorList, genres |-> l.genreList,
                      years |-> l.yearList]]

TypeErrorMessage == "Cannot read properties of undefined"

(***************************************************************************)
(* The name-variant service (nameVariants.js).  getNameVariants is an      *)
(* async function; its callers await one call before making the next.      *)
(***************************************************************************)
JsNull == <<"null">>
IsString(v) == v # Undefined /\ v # JsNull

\* line 4: new Map()
EmptyCache == [n \in {} |-> <<>>]

\* lines 255-333 (pre-seeded variant): the table as <<name, variants>> pairs
commonVariants ==
  <<
    <<<<"c","h","r","i","s","t","o","p","h","e","r">>,
      <<<<"k","r","i","s","t","o","f","f","e","r">>, <<"c","h","r","i","s","t","o","f","f","e","r">>, <<"c","h","r","i","s","t","o","p","h">>, <<"c","h","r","i","s">>, <<"k","r","i","s","t","o","p","h","e","r">>, <<"k","r","i","s">>>>>>,
    <<<<"k","r","i","s","t","o","f","f","e","r">>,
      <<<<"c","h","r","i","s","t","o","p","h","e","r">>, <<"c","h","r","i","s","t","o","f","f","e","r">>, <<"c","h","r","i","s","t","o","p","h">>, <<"c","h","r","i","s">>, <<"k","r","i","s","t","o","p","h","e","r">>, <<"k","r","i","s">>>>>>,
    <<<<"c","h","r","i","s","t","o","f","f","e","r">>,
      <<<<"c","h","r","i","s","t","o","p","h","e","r">>, <<"k","r","i","s","t","o","f","f","e","r">>, <<"c","h","r","i","s","t","o","p","h">>, <<"c","h","r","i","s">>, <<"k","r","i","s","t","o","p","h","e","r">>, <<"k","r","i","s">>>>>>,
    <<<<"m","i","k","a","e","l">>,
      <<<<"m","i","c","h","a","e","l">>, <<"m","i","k","k","e","l">>, <<"m","i","c","h","e","l">>, <<"m","i","c","k","e">>, <<"m","i","k","e">>, <<"m","i","c","k">>>>>>,
    <<<<"m","i","c","h","a","e","l">>,
      <<<<"m","i","k","a","e","l">>, <<"m","i","k","k","e","l">>, <<"m","i","c","h","e","l">>, <<"m","i","c","k","e">>, <<"m","i","k","e">>, <<"m","i","c","k">>>>>>,
    <<<<"s","t","e","f","a","n">>,
      <<<<"s","t","e","p","h","a","n">>, <<"s","t","e","v","e","n">>, <<"s","t","e","f","f","e","n">>, <<"s","t","e","v","e">>, <<"s","t","e","p","h","e","n">>>>>>,
    <<<<"s","t","e","v","e">>,
      <<<<"s","t","e","f","a","n">>, <<"s","t","e","p","h","a","n">>, <<"s","t","e","v","e","n">>, <<"s","t","e","f","f","e","n">>, <<"s","t","e","p","h","e","n">>>>>>,
    <<<<"s","t","i","e","g">>,
      <<<<"s","t","i","g">>>>>>,
    <<<<"s","t","i","g">>,
      <<<<"s","t","i","e","g">>>>>>,
    <<<<"j","o","h","a","n">>,
      <<<<"j","o","h","n">>, <<"j","o","h","a","n","n","e","s">>, <<"j","o","n">>, <<"j","o","h","n","n","y">>, <<"j","a","n">>, <<"h","a","n","s">>>>>>,
    <<<<"j","o","h","n">>,
      <<<<"j","o","h","a","n">>, <<"j","o","h","a","n","n","e","s">>, <<"j","o","n">>, <<"j","o","h","n","n","y">>, <<"j","a","n">>, <<"h","a","n","s">>>>>>,
    <<<<"j","o">>,
      <<<<"j","o","e">>, <<"j","o","h","a","n">>, <<"j","o","h","n">>, <<"j","o","h","a","n","n","e","s">>>>>>,
    <<<<"j","a","m","e","s">>,
      <<<<"j","i","m">>, <<"j","i","m","m","y">>, <<"j","a","k","o","b">>, <<"j","a","c","o","b">>>>>>,
    <<<<"j","o","n","a","s">>,
      <<<<"j","o","n","a","h">>, <<"j","o","n">>>>>>,
    <<<<"e","r","i","k">>,
      <<<<"e","r","i","c">>, <<"e","r","i","c","h">>, <<"e","r","i","c","k">>>>>>,
    <<<<"e","r","i","c">>,
      <<<<"e","r","i","k">>, <<"e","r","i","c","h">>, <<"e","r","i","c","k">>>>>>,
    <<<<"k","a","r","l">>,
      <<<<"c","a","r","l">>, <<"c","h","a","r","l","e","s">>, <<"c","h","a","r","l","i","e">>>>>>,
    <<<<"c","a","r","l">>,
      <<<<"k","a","r","l">>, <<"c","h","a","r","l","e","s">>, <<"c","h","a","r","l","i","e">>>>>>,
    <<<<"f","r","e","d","r","i","k">>,
      <<<<"f","r","e","d","e","r","i","c","k">>, <<"f","r","e","d","r","i","c">>, <<"f","r","e","d","d","i","e">>, <<"f","r","e","d">>, <<"f","r","i","t","z">>>>>>,
    <<<<"f","r","e","i","d","a">>,
      <<<<"f","r","i","d","a">>, <<"f","r","i","e","d","a">>>>>>,
    <<<<"f","r","i","d","a">>,
      <<<<"f","r","e","i","d","a">>, <<"f","r","i","e","d","a">>>>>>,
    <<<<"l","a","r","s">>,
      <<<<"l","a","u","r","e","n","c","e">>, <<"l","a","w","r","e","n","c","e">>, <<"l","a","r","r","y">>>>>>,
    <<<<"l","e","n","a">>,
      <<<<"h","e","l","e","n","a">>, <<"l","i","n","a">>, <<"h","e","l","e","n","e">>>>>>,
    <<<<"p","e","r">>,
      <<<<"p","e","t","e","r">>, <<"p","e","t","t","e","r">>, <<"p","i","e","r","r","e">>, <<"p","e","t","e">>>>>>,
    <<<<"p","e","t","e","r">>,
      <<<<"p","e","r">>, <<"p","e","t","t","e","r">>, <<"p","i","e","r","r","e">>, <<"p","e","t","e">>>>>>,
    <<<<"p","a","u","l","a">>,
      <<<<"p","a","u","l","i","n","a">>, <<"p","a","u","l","i","n","e">>, <<"p","a","o","l","a">>>>>>,
    <<<<"a","n","d","e","r","s">>,
      <<<<"a","n","d","r","e","w">>, <<"a","n","d","r","e","a","s">>, <<"a","n","d","r","e">>, <<"a","n","d","y">>>>>>,
    <<<<"a","n","d","r","e","a","s">>,
      <<<<"a","n","d","e","r","s">>, <<"a","n","d","r","e","w">>, <<"a","n","d","r","e">>, <<"a","n","d","y">>>>>>,
    <<<<"a","n","n","a">>,
      <<<<"a","n","n","e">>, <<"a","n","n">>, <<"h","a","n","n","a">>, <<"h","a","n","n","a","h">>, <<"a","n","j","a">>>>>>,
    <<<<"n","i","k","l","a","s">>,
      <<<<"n","i","c","h","o","l","a","s">>, <<"n","i","c","k","l","a","s">>, <<"n","i","c","o","l","a","s">>, <<"n","i","c","k">>, <<"n","i","l","s">>>>>>,
    <<<<"n","i","c","h","o","l","a","s">>,
      <<<<"n","i","k","l","a","s">>, <<"n","i","c","k","l","a","s">>, <<"n","i","c","o","l","a","s">>, <<"n","i","c","k">>, <<"n","i","l","s">>>>>>,
    <<<<"k","a","t","a","r","i","n","a">>,
      <<<<"k","a","t","h","e","r","i","n","e">>, <<"c","a","t","h","e","r","i","n","e">>, <<"k","a","t","r","i","n","a">>, <<"k","a","r","i","n">>, <<"k","a","t","e">>, <<"k","a","t","j","a">>>>>>,
    <<<<"m","a","r","i","a">>,
      <<<<"m","a","r","i","e">>, <<"m","a","r","y">>, <<"m","a","j","a">>, <<"m","a","r","i","o","n">>>>>>,
    <<<<"m","o","n","i","c","a">>,
      <<<<"m","o","n","i","k","a">>>>>>,
    <<<<"s","a","r","a">>,
      <<<<"s","a","r","a","h">>, <<"s","a","h","r","a">>>>>>,
    <<<<"c","a","m","i","l","l","a">>,
      <<<<"k","a","m","i","l","l","a">>, <<"c","a","m","i","l","l","e">>>>>>,
    <<<<"d","a","n">>,
      <<<<"d","a","n","i","e","l">>, <<"d","a","n","n","y">>>>>>,
    <<<<"d","a","n","i","e","l">>,
      <<<<"d","a","n">>, <<"d","a","n","n","y">>, <<"d","a","n","i","l","o">>>>>>,
    <<<<"g","i","l","l","i","a","n">>,
      <<<<"j","i","l","l","i","a","n">>, <<"g","i","l","l">>, <<"j","i","l","l">>>>>>,
    <<<<"l","i","n","d","a">>,
      <<<<"l","y","n","d","a">>>>>>
  >>

\* lines 335-337 (pre-seeded variant): cache.set(name, variants) for every entry
initializeCommonVariants ==
  [name \in {commonVariants[i][1] : i \in DOMAIN commonVariants} |->
     commonVariants[CHOOSE i \in DOMAIN commonVariants : commonVariants[i][1] = name][2]]

\* The characters U+00C0 to U+00FF, the range À-ÿ of the pattern of line 14;
\* the multiplication and the division sign are among them
LatinSupplement ==
  {"À", "Á", "Â", "Ã", "Ä", "Å", "Æ", "Ç", "È", "É", "Ê", "Ë", "Ì", "Í", "Î", "Ï",
   "Ð", "Ñ", "Ò", "Ó", "Ô", "Õ", "Ö", "×", "Ø", "Ù", "Ú", "Û", "Ü", "Ý", "Þ", "ß",
   "à", "á", "â", "ã", "ä", "å", "æ", "ç", "è", "é", "ê", "ë", "ì", "í", "î", "ï",
   "ð", "ñ", "ò", "ó", "ô", "õ", "ö", "÷", "ø", "ù", "ú", "û", "ü", "ý", "þ", "ÿ"}
\* lines 12-15: /^[a-zA-Z\u00C0-\u00FF\s\-']+$/ on the characters of the model
LatinChars ==
  LowerLetters \cup UpperLetters \cup LatinSupplement \cup WhiteSpace \cup {"-", "'"}
isLatinName(str) == str # <<>> /\ \A i \in 1..Len(str) : str[i] \in LatinChars

\* [...new Set(arr)]: the first occurrence of every element, in order
RECURSIVE Unique(_)
Unique(arr) ==
  IF arr = <<>> THEN <<>>
  ELSE LET init == Unique(SubSeq(arr, 1, Len(arr) - 1))
           last == arr[Len(arr)]
       IN  IF \E i \in 1..Len(init) : init[i] = last THEN init ELSE Append(init, last)

\* lines 22 and 163: firstName.toLowerCase().trim()
NormalizeName(firstName) == Trim(ToLowerCase(firstName))

\* b.variantLabel?.value?.toLowerCase(): undefined when the path is absent
LabelOf(b) ==
  IF Has(b, "variantLabel") /\ Has(b.variantLabel, "value")
  THEN ToLowerCase(b.variantLabel.value)
  ELSE Undefined

\* lines 71-77
AllVariants(bindings) ==
  LET labels == [i \in 1..Len(bindings) |-> LabelOf(bindings[i])]
      truthy == SelectSeq(labels, LAMBDA v : ~Falsy(v))
      latin  == SelectSeq(truthy, isLatinName)
  IN  Unique(SelectSeq(latin, LAMBDA v : Len(v) >= 2 /\ Len(v) <= 20))

\* lines 80 and 92
NameFamily(normalizedName, allVariants) == Unique(<<normalizedName>> \o allVariants)
WithoutNothing(names, name) == names
Without(names, name) == SelectSeq(names, LAMBDA v : v # name)

\* lines 214-221 (pre-seeded variant)
Variants2(bindings, normalizedName) ==
  LET labels == [i \in 1..Len(bindings) |-> LabelOf(bindings[i])]
      truthy == SelectSeq(labels, LAMBDA v : ~Falsy(v))
      others == Without(truthy, normalizedName)
      latin  == SelectSeq(others, isLatinName)
  IN  Unique(SelectSeq(latin, LAMBDA v : Len(v) >= 2 /\ Len(v) <= 20))

\* cache.has(name)
CacheHasNonEmpty(c, name) == name \in DOMAIN c /\ c[name] # <<>>
CacheHasNever(c, name) == FALSE
CacheHas(c, name) == name \in DOMAIN c

\* cache.set(name, value)
CacheSet(c, name, value) ==
  [n \in DOMAIN c \cup {name} |-> IF n = name THEN value ELSE c[n]]

\* lines 84-89: every name of the family that is not yet a key gets the rest of
\* the family
FamilyClosureOverwriting(c, nameFamily) ==
  [n \in DOMAIN c \cup {nameFamily[i] : i \in DOMAIN nameFamily} |->
     IF \E i \in DOMAIN nameFamily : nameFamily[i] = n
     THEN Without(nameFamily, n) ELSE c[n]]

FamilyClosure(c, nameFamily) ==
  [n \in DOMAIN c \cup {nameFamily[i] : i \in DOMAIN nameFamily} |->
     IF CacheHas(c, n) THEN c[n] ELSE Without(nameFamily, n)]

\* The fetch was answered with a success status (line 62) and a body that
\* parses (line 68) to an object in which data.results.bindings can be read
\* (line 72); anything else ends in the early return or in the catch block
FetchAnswered(outcome) ==
  /\ outcome.kind = "response"
  /\ outcome.ok
  /\ outcome.body = "results"

\* lines 62-109 (family variant) and 204-236 (pre-seeded variant): the value
\* returned and the cache left by a call that missed the cache, once its
\* fetch has settled with outcome
SettleFamily(c, normalizedName, outcome) ==
  IF FetchAnswered(outcome)
  THEN LET nameFamily == NameFamily(normalizedName,
                                    AllVariants(outcome.bindings))
       IN  [value |-> Without(nameFamily, normalizedName),
            cache |-> FamilyClosure(c, nameFamily)]
  ELSE [value |-> <<>>, cache |-> CacheSet(c, normalizedName, <<>>)]

SettlePreseeded(c, normalizedName, outcome) ==
  IF FetchAnswered(outcome)
  THEN LET variants == Variants2(outcome.bindings, normalizedName)
       IN  [value |-> variants, cache |-> CacheSet(c, normalizedName, variants)]
  ELSE [value |-> <<>>, cache |-> CacheSet(c, normalizedName, <<>>)]

\* lines 115-119
extractFirstName(fullName) ==
  IF ~IsString(fullName) \/ fullName = <<>> THEN JsNull
  ELSE LET parts == SplitWhitespace(Trim(fullName))
       IN  IF parts[1] = <<>> THEN JsNull ELSE parts[1]

NoLookup ==
  [pc |-> "idle", firstName |-> <<>>, normalizedName |-> <<>>, fetched |-> FALSE,
   response |-> "none", outcome |-> "none", value |-> <<>>]
NoHistory == [pairs |-> {}, failed |-> {}]
NoCreateBody == [none |-> TRUE]
NoSeedRun ==
  [pc |-> "none", run |-> 0, exists |-> FALSE, probe |-> "none", hasPhoneticPlugin |-> FALSE,
   body |-> NoCreateBody, errors |-> {}, failedAt |-> "none", USE_WIKIDATA |-> TRUE]

(***************************************************************************)
(* Actions.  One request is followed from its arrival to its response; the *)
(* next one is taken once the searches of the previous one have settled.   *)
(***************************************************************************)
CategorySet == {"authors", "titles", "genres", "years"}
Slots == CategorySet \cup {"search"}
Pending == [state |-> "pending", value |-> NoResult]

\* What the engine answers to indices.getMapping for the index 'books': the
\* sub-fields of title, with or without the phonetic one
MappingAnswer(outcome) ==
  [books |-> [mappings |-> [properties |-> [title |-> [fields |->
     {"keyword", "autocomplete"}
       \cup (IF outcome = "phonetic" THEN {"phonetic"} ELSE {})]]]]]

\* lines 387-390: mapping[INDEX_NAME] || mapping.body?.[INDEX_NAME], then
\* 'phonetic' in the fields of title (none if the index is not in the answer)
NoTitleFields(mapping) == FALSE
PhoneticInTitleFields(mapping) ==
  LET titleFields ==
        IF Has(mapping, "books") THEN mapping.books.mappings.properties.title.fields
        ELSE IF Has(mapping, "body") /\ Has(mapping.body, "books")
             THEN mapping.body.books.mappings.properties.title.fields
             ELSE {}
  IN  "phonetic" \in titleFields

\* lines 384-398: the startup probe of the index mapping; the flag is false
\* if the call throws
checkPhoneticSupport(outcome) ==
  /\ phoneticProbe = "pending"
  /\ phoneticProbe' = "done"
  /\ hasPhoneticFields' = IF outcome = "error" THEN FALSE
                          ELSE PhoneticInTitleFields(ClientReturn(MappingAnswer(outcome)))
  /\ UNCHANGED <<clientVars, nameVars, seedVars, engineVars, matching, serverVariant, isOpenSearch, pc, endpoint, req, locals, promises, engineResult,
                 allPromise, calls, response>>

\* lines 411-574: GET /api/suggest up to its await
SuggestRequest(q, authors, genres, years) ==
  LET r == [q |-> q,
            authors |-> IF authors = Undefined THEN <<>> ELSE authors,
            genres  |-> IF genres = Undefined THEN <<>> ELSE genres,
            years   |-> IF years = Undefined THEN <<>> ELSE years]
      l == SuggestLocals(r)
      ps == [c \in Slots |->
               IF c \in CategorySet
               THEN IF Issued(l, c) THEN Pending
                    ELSE [state |-> "value", value |-> Placeholder(c)]
               ELSE NoPromise]
  IN  /\ pc = "idle"
      /\ endpoint' = "suggest"
      /\ req' = r
      /\ engineResult' = [c \in Slots |-> NoResult]
      /\ IF TooShort(q)
         THEN /\ response' = [status |-> 200, body |-> EmptyBody(q)]
              /\ pc' = "done"
              /\ locals' = NoLocals
              /\ promises' = [c \in Slots |-> NoPromise]
              /\ allPromise' = AllIdle
              /\ calls' = <<>>
         ELSE /\ response' = NoResponse
              /\ pc' = "suggestAwait"
              /\ locals' = l
              /\ promises' = ps
              /\ allPromise' = PromiseAll([state |-> "pending", reason |-> NoResult],
                                          ps, "authors")
              /\ calls' = IF serverVariant = 1 THEN SuggestCalls(l, hasPhoneticFields)
                          ELSE SuggestCalls2(l)
      /\ UNCHANGED <<clientVars, nameVars, seedVars, engineVars, matching, serverVariant, isOpenSearch, hasPhoneticFields, phoneticProbe>>

\* The engine answers the search of slot c with result R
EngineResolve(c, R) ==
  /\ promises[c].state = "pending"
  /\ promises' = [promises EXCEPT ![c] = [state |-> "fulfilled", value |-> ClientReturn(R)]]
  /\ engineResult' = [engineResult EXCEPT ![c] = R]
  /\ allPromise' = IF endpoint = "suggest" THEN PromiseAll(allPromise, promises', c)
                   ELSE allPromise
  /\ UNCHANGED <<clientVars, nameVars, seedVars, engineVars, matching, serverVariant, isOpenSearch, hasPhoneticFields, phoneticProbe, pc, endpoint, req,
                 locals, calls, response>>

\* The search of slot c fails with error
EngineReject(c, error) ==
  /\ promises[c].state = "pending"
  /\ promises' = [promises EXCEPT ![c] = [state |-> "rejected", value |-> error]]
  /\ allPromise' = IF endpoint = "suggest" THEN PromiseAll(allPromise, promises', c)
                   ELSE allPromise
  /\ UNCHANGED <<clientVars, nameVars, seedVars, engineVars, matching, serverVariant, isOpenSearch, hasPhoneticFields, phoneticProbe, pc, endpoint, req,
                 locals, engineResult, calls, response>>

\* lines 576-638: GET /api/suggest after its await
SuggestRespond ==
  /\ pc = "suggestAwait"
  /\ allPromise.state \in {"fulfilled", "rejected"}
  /\ response' =
       IF allPromise.state = "fulfilled"
       THEN [status |-> 200,
             body |-> SuggestBody(req, locals,
                                  [c \in CategorySet |->
                                     IF serverVariant = 1 THEN unwrap(promises[c].value)
                                     ELSE promises[c].value])]
       ELSE [status |-> 500,
             body |-> IF serverVariant = 1 THEN SuggestErrorBody(allPromise.reason)
                      ELSE SuggestErrorBody2(allPromise.reason)]
  /\ pc' = "done"
  /\ UNCHANGED <<clientVars, nameVars, seedVars, engineVars, matching, serverVariant, isOpenSearch, hasPhoneticFields, phoneticProbe, endpoint, req, locals,
                 promises, engineResult, allPromise, calls>>

\* lines 642-722: GET /api/search up to its await
SearchRequest(q, page, size, authors, genres, years, sort) ==
  LET r == [q |-> q, page |-> page, size |-> size, authors |-> authors,
            genres |-> genres, years |-> years, sort |-> sort]
      l == SearchLocals(r)
  IN  /\ pc = "idle"
      /\ endpoint' = "search"
      /\ req' = r
      /\ locals' = l
      /\ promises' = [c \in Slots |-> IF c = "search" THEN Pending ELSE NoPromise]
      /\ engineResult' = [c \in Slots |-> NoResult]
      /\ allPromise' = AllIdle
      /\ calls' = <<[category |-> "search",
                      body |-> IF serverVariant = 1 THEN SearchQuery(r, l, hasPhoneticFields)
                               ELSE SearchQuery2(r, l)]>>
      /\ response' = NoResponse
      /\ pc' = "searchAwait"
      /\ UNCHANGED <<clientVars, nameVars, seedVars, engineVars, matching, serverVariant, isOpenSearch, hasPhoneticFields, phoneticProbe>>

\* lines 724-748: GET /api/search after its await
SearchRespond ==
  /\ pc = "searchAwait"
  /\ promises["search"].state \in {"fulfilled", "rejected"}
  /\ response' =
       IF promises["search"].state = "rejected"
       THEN [status |-> 500, body |-> [error |-> promises["search"].value.message]]
       ELSE LET result == IF serverVariant = 1 THEN unwrap(promises["search"].value)
                          ELSE promises["search"].value
            IN  IF SearchReadable(result)
                THEN [status |-> 200, body |-> SearchBody(req, locals, result)]
                ELSE [status |-> 500, body |-> [error |-> TypeErrorMessage]]
  /\ pc' = "done"
  /\ UNCHANGED <<clientVars, nameVars, seedVars, engineVars, matching, serverVariant, isOpenSearch, hasPhoneticFields, phoneticProbe, endpoint, req, locals,
                 promises, engineResult, allPromise, calls>>

\* The request is over and every search it issued has settled: the next request
NextRequest ==
  /\ pc = "done"
  /\ \A c \in Slots : promises[c].state # "pending"
  /\ pc' = "idle"
  /\ endpoint' = "none"
  /\ req' = NoLocals
  /\ locals' = NoLocals
  /\ promises' = [c \in Slots |-> NoPromise]
  /\ engineResult' = [c \in Slots |-> NoResult]
  /\ allPromise' = AllIdle
  /\ matching' = <<>>
  /\ calls' = <<>>
  /\ response' = NoResponse
  /\ UNCHANGED <<clientVars, nameVars, seedVars, engineVars, serverVariant, isOpenSearch, hasPhoneticFields, phoneticProbe>>

\* lines 21-27 and 162-168: getNameVariants up to its first await.  The
\* normalisation stands before the try block, so what it throws rejects the
\* promise the caller awaits.
getNameVariants(firstName) ==
  /\ lookup.pc = "idle"
  /\ IF ~IsString(firstName)
     THEN lookup' = [NoLookup EXCEPT !.pc = "done", !.firstName = firstName,
                                     !.outcome = "thrown"]
     ELSE LET normalizedName == NormalizeName(firstName)
          IN  IF CacheHas(cache, normalizedName)
              THEN lookup' = [NoLookup EXCEPT !.pc = "done", !.firstName = firstName,
                                              !.normalizedName = normalizedName,
                                              !.outcome = "returned",
                                              !.value = cache[normalizedName]]
              ELSE lookup' = [NoLookup EXCEPT !.pc = "fetch", !.firstName = firstName,
                                              !.normalizedName = normalizedName,
                                              !.fetched = TRUE]
  /\ UNCHANGED <<clientVars, nameService, overlap, cache, history, serverVars, seedVars, engineVars>>

\* lines 52-109 and 193-236: the fetch settles with outcome (rejected by the
\* abort of the 5 s timer or by a network error, or answered) and the call returns
FetchSettle(outcome) ==
  /\ lookup.pc = "fetch"
  /\ LET settled == IF nameService = "family"
                    THEN SettleFamily(cache, lookup.normalizedName, outcome)
                    ELSE SettlePreseeded(cache, lookup.normalizedName, outcome)
     IN  /\ cache' = settled.cache
         /\ lookup' = [lookup EXCEPT !.pc = "done", !.outcome = "returned",
                                     !.value = settled.value,
                                     !.response = IF outcome.kind # "response" THEN outcome.kind
                                                  ELSE IF outcome.ok THEN "ok" ELSE "status"]
  /\ UNCHANGED <<clientVars, nameService, overlap, history, serverVars, seedVars, engineVars>>

\* lines 21-27 and 162-168: a second caller calls getNameVariants while the
\* call of the first is at its await
OverlappingCall(firstName) ==
  /\ lookup.pc = "fetch"
  /\ overlap.pc = "idle"
  /\ IsString(firstName)
  /\ LET normalizedName == NormalizeName(firstName)
     IN  IF CacheHas(cache, normalizedName)
         THEN overlap' = [NoLookup EXCEPT !.pc = "done", !.firstName = firstName,
                                          !.normalizedName = normalizedName,
                                          !.outcome = "returned",
                                          !.value = cache[normalizedName]]
         ELSE overlap' = [NoLookup EXCEPT !.pc = "fetch", !.firstName = firstName,
                                          !.normalizedName = normalizedName,
                                          !.fetched = TRUE]
  /\ UNCHANGED <<clientVars, nameService, cache, lookup, history, serverVars, seedVars,
                 engineVars>>

\* lines 52-109 and 193-236: the fetch of the second call settles
OverlapSettle(outcome) ==
  /\ overlap.pc = "fetch"
  /\ LET settled == IF nameService = "family"
                    THEN SettleFamily(cache, overlap.normalizedName, outcome)
                    ELSE SettlePreseeded(cache, overlap.normalizedName, outcome)
     IN  /\ cache' = settled.cache
         /\ overlap' = [overlap EXCEPT !.pc = "done", !.outcome = "returned",
                                       !.value = settled.value,
                                       !.response = IF outcome.kind # "response" THEN outcome.kind
                                                    ELSE IF outcome.ok THEN "ok" ELSE "status"]
  /\ UNCHANGED <<clientVars, nameService, lookup, history, serverVars, seedVars, engineVars>>

\* The second caller has its list
OverlapReturn ==
  /\ overlap.pc = "done"
  /\ overlap' = NoLookup
  /\ UNCHANGED <<clientVars, nameService, cache, lookup, history, serverVars, seedVars,
                 engineVars>>

\* The caller has the outcome of the call, keeps the list under the name it
\* asked for (part_000 line 456) and goes on to its next call
NextLookup ==
  /\ lookup.pc = "done"
  /\ lookup' = NoLookup
  /\ variantsMap' = IF lookup.outcome = "returned"
                    THEN CacheSet(variantsMap, lookup.firstName, lookup.value)
                    ELSE variantsMap
  /\ history' =
       [pairs  |-> history.pairs \cup
                     (IF lookup.outcome = "returned"
                      THEN {<<lookup.normalizedName, lookup.value[i]>> : i \in DOMAIN lookup.value}
                      ELSE {}),
        failed |-> history.failed \cup
                     (IF lookup.response \in {"abort", "status"}
                      THEN {lookup.normalizedName} ELSE {})]
  /\ UNCHANGED <<clientVars, nameService, overlap, cache, serverVars, engineVars, seedRun>>

\* The name-variant service after module load: the family variant starts with
\* an empty cache (lines 124-127, 140), the pre-seeded one with the table
\* (lines 252-338, 351)
InitNames ==
  /\ nameService \in {"family", "preseeded"}
  /\ cache = IF nameService = "family" THEN EmptyCache ELSE initializeCommonVariants
  /\ lookup = NoLookup
  /\ overlap = NoLookup
  /\ history = NoHistory
  /\ variantsMap = EmptyCache
  /\ seedRun = NoSeedRun

\* The engine before an index is created; the specifications that take the
\* engine's answers from the environment leave it so
NoIndices == [n \in {} |-> <<>>]
InitNoIndices == indices = NoIndices

\* No server in the process
InitServerIdle ==
  /\ serverVariant = 1
  /\ isOpenSearch = FALSE
  /\ hasPhoneticFields = FALSE
  /\ phoneticProbe = "none"

\* A serving process: it makes no name lookups
InitNoLookups ==
  /\ nameService = "family"
  /\ cache = EmptyCache
  /\ lookup = NoLookup
  /\ overlap = NoLookup
  /\ history = NoHistory
  /\ variantsMap = EmptyCache
  /\ seedRun = NoSeedRun

\* The request part of the initial state: no request yet
InitRequest ==
  /\ pc = "idle"
  /\ endpoint = "none"
  /\ req = NoLocals
  /\ locals = NoLocals
  /\ promises = [c \in Slots |-> NoPromise]
  /\ engineResult = [c \in Slots |-> NoResult]
  /\ matching = <<>>
  /\ allPromise = AllIdle
  /\ calls = <<>>
  /\ response = NoResponse

\* part_002 lines 4-14: state
InitialClient ==
  [query |-> <<>>, authors |-> <<>>, genres |-> <<>>, years |-> <<>>, page |-> 1,
   sort |-> "", totalResults |-> 0]
NoEvent == [kind |-> "none", type |-> "none", shown |-> <<>>]

\* part_002 line 43: debounceTimer without a pending timer
NoTimer == <<"none">>
HiddenDropdown == [active |-> FALSE, q |-> <<>>]

\* The results area before the first search: the welcome text
NoResults == [view |-> "welcome", prevDisabled |-> TRUE, nextDisabled |-> TRUE]

\* The page after load (part_002 lines 4-14): nothing typed, no filter
InitClient ==
  /\ client = InitialClient
  /\ dropdown = HiddenDropdown
  /\ debounceTimer = NoTimer
  /\ fetches = {}
  /\ searches = {}
  /\ results = NoResults
  /\ clientEvent = NoEvent

\* A process that looks names up and serves no requests
InitSeed ==
  /\ InitNames
  /\ InitServerIdle
  /\ InitRequest
  /\ InitNoIndices
  /\ InitClient

\* A serving process on the Elasticsearch client whose probe found no phonetic
\* sub-field
InitPlain ==
  /\ serverVariant = 1
  /\ isOpenSearch = FALSE
  /\ hasPhoneticFields = FALSE
  /\ phoneticProbe = "done"
  /\ InitRequest
  /\ InitNoLookups
  /\ InitNoIndices
  /\ InitClient

\* Process start: the flag is false until the probe completes (lines 382, 398)
Init ==
  /\ serverVariant = 1
  /\ isOpenSearch \in BOOLEAN
  /\ hasPhoneticFields = FALSE
  /\ phoneticProbe = "pending"
  /\ InitRequest
  /\ InitNoLookups
  /\ InitNoIndices
  /\ InitClient

\* Process start of the second server (lines 772-777): the Elasticsearch client,
\* no capability flag and no probe of the mapping; the flag of the model keeps
\* the value it starts with in the first server
Init2 ==
  /\ serverVariant = 2
  /\ isOpenSearch = FALSE
  /\ hasPhoneticFields = FALSE
  /\ phoneticProbe = "none"
  /\ InitRequest
  /\ InitNoLookups
  /\ InitNoIndices
  /\ InitClient

(***************************************************************************)
(* The environment: what the engine may answer, and the requests.          *)
(***************************************************************************)
Bucket(key, n) == [key |-> key, doc_count |-> n]
AggResult(name, buckets) ==
  [took |-> 1, aggregations |-> [n \in {name} |-> [buckets |-> buckets]]]
HitsResult(total, hits) ==
  [took |-> 1, hits |-> [total |-> [value |-> total], hits |-> hits]]
Book(id, title, author, year) ==
  [_id |-> id, _score |-> 1,
   _source |-> [title |-> title, author |-> author, releaseYear |-> year,
                rating |-> 4, genre |-> <<(<<"X">>)>>]]

EngineError(c) == [message |-> c]
ProbeOutcomes == {"phonetic", "plain", "error"}

\* One fixed, non-empty answer per category
SampleResult(c) ==
  CASE c = "authors" -> AggResult("authors", <<Bucket(<<"D", "a", "n">>, 2)>>)
    [] c = "titles"  -> HitsResult(1, <<Book("b1", <<"A", "b">>, <<"D", "a", "n">>, 2020)>>)
    [] c = "genres"  -> AggResult("genres", <<Bucket(<<"X", "a">>, 1)>>)
    [] OTHER         -> AggResult("years", <<Bucket(2020, 1), Bucket(200, 1), Bucket(1920, 1)>>)

(***************************************************************************)
(* Spec: suggest requests for every query string of up to MaxQLen          *)
(* characters over QAlphabet and a few longer ones, one answer per         *)
(* category, the issued searches completing or failing in every order.     *)
(***************************************************************************)
QAlphabet == {"2", "0", "a", " "}
\* Further queries: the 19 branch, other separators, other whitespace
ExtraQueries ==
  {<<"1", "9">>,
   <<"1", "9", "9">>,
   <<"1", "9", "9", "9">>,
   <<"1", "9", "9", "9", "9">>,
   <<"1", "9", "-", "2", "0">>,
   <<"x", "1", "9">>,
   <<"1", "9", " ", "2", "0", "2", "0", "a">>,
   <<"2", "0", "2", "0", "-", "1", "9", " ", "a", "b">>,
   <<"_", "2", "0", " ", "2", "0">>,
   <<"\t", "1", "\n">>,
   <<"A", " ", "1", "9", "2", "0">>,
   <<"2", "0", ".", "1", "9">>,
   <<"2", "0", "1", " ", "9">>}
QueryStrings == StringsUpTo(QAlphabet, MaxQLen) \cup ExtraQueries \cup {Undefined}

Next ==
  \/ \E q \in QueryStrings : SuggestRequest(q, Undefined, Undefined, Undefined)
  \/ \E c \in CategorySet : EngineResolve(c, SampleResult(c))
  \/ \E c \in CategorySet : EngineReject(c, EngineError(c))
  \/ SuggestRespond
  \/ NextRequest

Spec == InitPlain /\ [][Next]_vars

\* The categories for which the current request issued an engine search
IssuedCategories == {calls[i].category : i \in 1..Len(calls)}

SuggestDone == endpoint = "suggest" /\ pc = "done"
SuggestSucceeded == SuggestDone /\ response.status = 200

\* C1: a suggest request whose q is absent or shorter than 2 characters after
\* trimming issues no engine search, is never left waiting on one, and is
\* answered 200 with authors, titles, genres and years all empty.
C1_ShortQueryEmptyNoCalls ==
  (endpoint = "suggest" /\ (req.q = Undefined \/ StrLen(Trim(req.q)) < 2)) =>
     /\ calls = <<>>
     /\ \A c \in Slots : promises[c].state \notin {"pending", "fulfilled", "rejected"}
     /\ pc = "suggestAwait" => allPromise.state = "fulfilled"
     /\ pc = "done" =>
          /\ response.status = 200
          /\ \A c \in CategorySet : response.body[c] = <<>>

\* C1 witness: a q of 2 or more characters that trims to fewer than 2 went
\* through the handler's main path and was answered
C1_Witness ==
  /\ SuggestSucceeded
  /\ req.q # Undefined
  /\ StrLen(req.q) >= 2
  /\ Trim(req.q) # <<>>
  /\ StrLen(Trim(req.q)) < 2
  /\ locals # NoLocals

\* C3: once any issued search has failed the request can only end in a 500 that
\* carries the message of a failed search and no suggestion list; a 200 is sent
\* only when every issued search has completed successfully.
C3_AnyFailureFailsRequest ==
  endpoint = "suggest" =>
    LET failed == {c \in CategorySet : promises[c].state = "rejected"}
    IN  /\ (failed # {} /\ pc = "suggestAwait") => allPromise.state = "rejected"
        /\ (failed # {} /\ pc = "done") =>
              /\ response.status = 500
              /\ DOMAIN response.body = {"error", "details"}
              /\ response.body.error \in {promises[c].value.message : c \in failed}
        /\ (pc = "done" /\ response.status = 200) =>
              \A c \in CategorySet : promises[c].state \in {"none", "value", "fulfilled"}
        /\ (pc = "done" /\ response.status = 500) => failed # {}

\* C3 witness: the request was answered 500 after one search had succeeded and
\* another failed, while a third was still in flight
C3_Witness ==
  /\ SuggestDone
  /\ response.status = 500
  /\ promises["authors"].state = "fulfilled"
  /\ promises["years"].state = "rejected"
  /\ promises["titles"].state = "pending"
  /\ response.body.error = "years"

\* The residual text query and the year patterns as the claim defines them
Residual(q) == IF q = Undefined THEN <<>> ELSE Trim(ReplaceYearPattern(q))
PatternFound(q) == q # Undefined /\ YearMatches(q) # <<>>

\* C4: the authors, titles and genres searches are issued iff the residual text
\* query has at least 2 characters, the years search iff a year pattern was
\* found in q; a category whose search was not issued is answered empty.
C4_QueriesGated ==
  endpoint = "suggest" =>
    /\ \A c \in {"authors", "titles", "genres"} :
         (c \in IssuedCategories) <=> (StrLen(Residual(req.q)) >= 2)
    /\ ("years" \in IssuedCategories) <=> PatternFound(req.q)
    /\ \A c \in CategorySet : (promises[c].state = "pending") => c \in IssuedCategories
    /\ SuggestSucceeded =>
         \A c \in CategorySet \ IssuedCategories : response.body[c] = <<>>

\* C4 witness: a request with a year pattern but a residual shorter than 2 was
\* answered with years and without the three text categories
C4_Witness ==
  /\ SuggestSucceeded
  /\ IssuedCategories = {"years"}
  /\ response.body.years # <<>>
  /\ response.body.authors = <<>>
  /\ req.q # Undefined
  /\ StrLen(Residual(req.q)) = 1

\* C5 (as claimed): a suggest request sends at most one request to the engine.
C5_AtMostOneEngineRequest ==
  endpoint = "suggest" => Len(calls) <= 1

IsYearRun(p) ==
  /\ Len(p) \in {3, 4}
  /\ \A i \in 1..Len(p) : p[i] \in Digits
  /\ SubSeq(p, 1, 2) \in {<<"1", "9">>, <<"2", "0">>}

\* C6 (as claimed): every year pattern extracted from q is a run of 3 or 4
\* digits starting with 19 or 20.
C6_YearPatternsThreeOrFourDigits ==
  (endpoint = "suggest" /\ locals # NoLocals) =>
     \A i \in 1..Len(locals.yearPattern) : IsYearRun(locals.yearPattern[i])

\* C7: the residual text query contains no year pattern (a second extraction
\* finds nothing and leaves it unchanged), and the years list of a response is
\* non-empty only when a year pattern was found in q.
C7_YearExtractionIdempotent ==
  /\ (endpoint = "suggest" /\ locals # NoLocals) =>
        /\ MatchYearPattern(locals.textQuery) = <<>>
        /\ Trim(ReplaceYearPattern(locals.textQuery)) = locals.textQuery
  /\ (SuggestSucceeded /\ response.body.years # <<>>) =>
        (locals # NoLocals /\ locals.yearPattern # <<>>)

\* C7 witness: q held a year pattern and other text; the pattern was removed
\* and the years list is non-empty
C7_Witness ==
  /\ SuggestSucceeded
  /\ locals # NoLocals
  /\ Len(locals.yearPattern) = 1
  /\ locals.textQuery # <<>>
  /\ StrLen(locals.textQuery) + StrLen(locals.yearPattern[1]) < StrLen(req.q)
  /\ response.body.years # <<>>

(***************************************************************************)
(* SpecFilters: suggest requests under every combination of filter         *)
(* parameters, from process start (both clients, the probe still pending). *)
(***************************************************************************)
FilterQueries == {<<"a", "a">>, <<"2", "0">>, <<"a", "a", " ", "2", "0">>}
AuthorParams == {Undefined, <<"D", "a", "n">>, <<"D", "a", "n", ",", "a", "b">>}
GenreParams == {Undefined, <<"X">>, <<"X", ",", "X", "a">>}
YearParams == {Undefined, <<"2", "0", "2", "0">>, <<"2", "0", "2", "0", ",", "x", ",", "0">>, <<"x">>}

NextFilters ==
  \/ \E outcome \in ProbeOutcomes : checkPhoneticSupport(outcome)
  \/ \E q \in FilterQueries, a \in AuthorParams, g \in GenreParams, y \in YearParams :
       SuggestRequest(q, a, g, y)
  \/ \E c \in CategorySet : EngineResolve(c, SampleResult(c))
  \/ \E c \in CategorySet : EngineReject(c, EngineError(c))
  \/ SuggestRespond
  \/ NextRequest

SpecFilters == Init /\ [][NextFilters]_vars

FilterDimensions == {"author.keyword", "genre", "releaseYear"}

\* The active filter set of a dimension
ActiveOf(dim) ==
  CASE dim = "author.keyword" -> locals.activeFilters.authors
    [] dim = "genre"          -> locals.activeFilters.genres
    [] OTHER                  -> locals.activeFilters.years

\* The dimension a category suggests values of (titles: none)
OwnDimension(c) ==
  CASE c = "authors" -> {"author.keyword"}
    [] c = "genres"  -> {"genre"}
    [] c = "years"   -> {"releaseYear"}
    [] OTHER         -> {}

\* C2: every issued category search is hard-filtered by exactly the non-empty
\* active filters of the other dimensions: never by the category's own
\* dimension, and the titles search by all three.
C2_AsymmetricFilters ==
  (endpoint = "suggest" /\ locals # NoLocals) =>
    \A i \in 1..Len(calls) :
      LET fl == calls[i].body.filter
          expected == {d \in FilterDimensions \ OwnDimension(calls[i].category) :
                         Len(ActiveOf(d)) > 0}
      IN  /\ {fl[j].field : j \in 1..Len(fl)} = expected
          /\ Len(fl) = Cardinality(expected)
          /\ \A j \in 1..Len(fl) : fl[j].values = ActiveOf(fl[j].field)

\* C2 witness: all three filters are active and all four searches were issued
C2_Witness ==
  /\ endpoint = "suggest"
  /\ locals # NoLocals
  /\ \A d \in FilterDimensions : Len(ActiveOf(d)) > 0
  /\ Len(locals.activeFilters.authors) = 2
  /\ IssuedCategories = CategorySet
  /\ Len(calls[1].body.filter) = 2
  /\ Len(calls[2].body.filter) = 3

(***************************************************************************)
(* SpecResults: suggest and search requests for a few queries, the engine  *)
(* answering with varying results (year buckets: every sequence of up to   *)
(* MaxBuckets buckets), through either client library.                     *)
(***************************************************************************)
ResultQueries == {<<"a", "n", " ", "d", "a">>, <<"d", "a", " ", "d", "a">>, <<"D", "a", " ", "2", "0">>, <<"1", "9", " ", "2", "0">>, <<"x", "x", " ", "2", "0", "2">>}

RECURSIVE SeqsUpTo(_, _)
SeqsUpTo(A, n) ==
  IF n = 0 THEN {<<>>}
  ELSE LET shorter == SeqsUpTo(A, n - 1)
       IN  shorter \cup {Append(s, c) : s \in {t \in shorter : Len(t) = n - 1}, c \in A}

YearBuckets == {Bucket(2020, 3), Bucket(1999, 1), Bucket(1920, 2)}
NoAggregations == [took |-> 1, hits |-> [total |-> [value |-> 0], hits |-> <<>>]]

\* What the engine may answer to the search of a category
Results(c) ==
  CASE c = "authors" ->
         {AggResult("authors", <<Bucket(<<"D", "a", "n">>, 2), Bucket(<<"a", "b", " ", "D", "a">>, 1)>>), NoAggregations}
    [] c = "titles" ->
         {HitsResult(2, <<Book("b1", <<"D", "a", " ", "a", "n">>, <<"D", "a", "n">>, 2020),
                          Book("b2", <<"x", "a">>, <<"a", "b", " ", "D", "a">>, 1999)>>),
          [took |-> 1]}
    [] c = "genres" ->
         {AggResult("genres", <<Bucket(<<"D", "a", "n", "s">>, 1)>>), AggResult("genres", <<>>)}
    [] c = "years" ->
         {AggResult("years", bs) : bs \in SeqsUpTo(YearBuckets, MaxBuckets)}
    [] OTHER ->
         {HitsResult(3, <<Book("b1", <<"D", "a", " ", "a", "n">>, <<"D", "a", "n">>, 2020)>>)
            @@ [aggregations |->
                  [authors |-> [buckets |-> <<Bucket(<<"D", "a", "n">>, 3)>>],
                   genres |-> [buckets |-> <<Bucket(<<"D", "a", "n", "s">>, 3)>>],
                   years |-> [buckets |-> <<Bucket(2020, 3)>>]]],
          HitsResult(0, <<>>)}

SearchTexts == {Undefined, <<"d", "a">>}
SearchPages == {Undefined, <<"2">>}
SearchSorts == {"undefined", "rating"}

NextResults ==
  \/ \E outcome \in ProbeOutcomes : checkPhoneticSupport(outcome)
  \/ \E q \in ResultQueries : SuggestRequest(q, Undefined, Undefined, Undefined)
  \/ \E q \in SearchTexts, page \in SearchPages, sort \in SearchSorts :
       SearchRequest(q, page, Undefined, Undefined, Undefined, Undefined, sort)
  \/ \E c \in Slots : \E R \in Results(c) : EngineResolve(c, R)
  \/ \E c \in Slots : EngineReject(c, EngineError(c))
  \/ SuggestRespond
  \/ SearchRespond
  \/ NextRequest

SpecResults == Init /\ [][NextResults]_vars

\* t occurs in v as a contiguous run
IsSubstring(t, v) ==
  \E k \in 0..Len(v) : k + Len(t) <= Len(v) /\ \A j \in 1..Len(t) : v[k + j] = t[j]

\* m is the sub-sequence of T at exactly the positions in keep, in T's order
IsSubSequenceAt(m, T, keep) ==
  \E f \in [1..Len(m) -> 1..Len(T)] :
    /\ \A a, b \in 1..Len(m) : a < b => f[a] < f[b]
    /\ {f[a] : a \in 1..Len(m)} = keep
    /\ \A a \in 1..Len(m) : m[a] = T[f[a]]

\* The matchedTerms of a suggestion are the query terms occurring in its value
MatchedTermsExact(sug) ==
  LET T == locals.queryTerms
      v == ToLowerCase(sug.value)
  IN  /\ IsSubSequenceAt(sug.matchedTerms, T, {i \in 1..Len(T) : IsSubstring(T[i], v)})
      /\ \A a \in 1..Len(sug.matchedTerms) :
           \E i \in 1..Len(T) : sug.matchedTerms[a] = T[i]

TextSuggestions ==
  {response.body.authors[i] : i \in 1..Len(response.body.authors)}
    \cup {response.body.titles[i] : i \in 1..Len(response.body.titles)}
    \cup {response.body.genres[i] : i \in 1..Len(response.body.genres)}

\* C8: the matchedTerms of every authors, titles and genres suggestion is the
\* sub-sequence, in query order, of the lowercase residual query terms that
\* occur in the lowercased suggestion value; it holds no other term.
C8_MatchedTermsExact ==
  SuggestSucceeded =>
    /\ locals # NoLocals =>
         locals.queryTerms = FilterBoolean(SplitWhitespace(ToLowerCase(response.body.textQuery)))
    /\ \A sug \in TextSuggestions : MatchedTermsExact(sug)

\* C8 witness: one suggestion matched both query terms, another only one of them
C8_Witness ==
  /\ SuggestSucceeded
  /\ locals # NoLocals
  /\ Len(locals.queryTerms) = 2
  /\ locals.queryTerms[1] # locals.queryTerms[2]
  /\ \E sug \in TextSuggestions : sug.matchedTerms = locals.queryTerms
  /\ \E sug \in TextSuggestions : Len(sug.matchedTerms) = 1

RECURSIVE Pow10(_)
Pow10(k) == IF k = 0 THEN 1 ELSE 10 * Pow10(k - 1)

\* The decimal representation of n starts with the digit string p (p has no
\* leading zero): dropping some number of low digits of n leaves the number p
DecimalStartsWith(n, p) ==
  \E k \in 0..6 : n \div Pow10(k) = DigitsValue(p)

\* C9: every year of the years list starts, in decimal, with one of the year
\* patterns detected in q, and the list is a sub-sequence of the buckets the
\* engine returned, in the engine's order.
C9_YearsStartWithPattern ==
  (SuggestSucceeded /\ locals # NoLocals) =>
    LET ys == response.body.years
        bs == Buckets(engineResult["years"], "years")
    IN  /\ \A i \in 1..Len(ys) :
             \E k \in 1..Len(locals.yearPattern) :
               DecimalStartsWith(ys[i].value, locals.yearPattern[k])
        /\ \E keep \in SUBSET (1..Len(bs)) :
             IsSubSequenceAt(ys, [i \in 1..Len(bs) |->
                                    [value |-> bs[i].key, count |-> bs[i].doc_count]], keep)

\* C9 witness: the engine returned two year buckets, of which one was dropped
C9_Witness ==
  /\ SuggestSucceeded
  /\ locals # NoLocals
  /\ Len(Buckets(engineResult["years"], "years")) = 2
  /\ Len(response.body.years) = 1
  /\ response.body.years[1].value = Buckets(engineResult["years"], "years")[2].key

\* The result a slot contributes to the response: the engine's result, or the
\* placeholder of a search that was not issued
ResultOf(c) ==
  IF promises[c].state = "value" THEN promises[c].value ELSE engineResult[c]

\* C10: the response is the one built from the engine's result R itself, whether
\* the client returned R or {body: R}.
C10_SameBodyWrappedOrNot ==
  /\ (SuggestSucceeded /\ locals # NoLocals) =>
        response.body = SuggestBody(req, locals, [c \in CategorySet |-> ResultOf(c)])
  /\ (endpoint = "search" /\ pc = "done" /\ promises["search"].state = "fulfilled") =>
        response = [status |-> 200,
                    body |-> SearchBody(req, locals, engineResult["search"])]

\* C10 witness: the OpenSearch client wrapped the results and the response
\* carries the suggestions of all four categories
C10_Witness ==
  /\ isOpenSearch
  /\ SuggestSucceeded
  /\ locals # NoLocals
  /\ \A c \in CategorySet :
       /\ promises[c].state = "fulfilled"
       /\ promises[c].value = [body |-> engineResult[c]]
       /\ response.body[c] # <<>>

(***************************************************************************)
(* SpecSearch: both servers from process start, search requests over every *)
(* page, size, filter and sort parameter, and suggest requests with a years*)
(* parameter.  The engine holds a corpus of n documents that match the     *)
(* text of the request, n up to MaxCorpus, and answers a search as the     *)
(* query it was sent prescribes: the documents passing every terms filter, *)
(* the slice from `from` of length `size`, and the terms aggregations over *)
(* the documents that passed.                                              *)
(***************************************************************************)
MaxCorpus == 25

CorpusAuthors == <<(<<"D", "a", "n">>), (<<"a", "b">>)>>
CorpusGenres == <<(<<"X">>), (<<"X", "a">>)>>
CorpusYears == <<2020, 1999>>

\* Document i of the corpus
Doc(i) ==
  [_id |-> i, _score |-> 1,
   _source |-> [title |-> <<"A", "b">>,
                author |-> CorpusAuthors[(i % 2) + 1],
                releaseYear |-> CorpusYears[IF i % 3 = 0 THEN 2 ELSE 1],
                rating |-> 4,
                genre |-> CASE i % 4 = 0 -> <<CorpusGenres[2]>>
                            [] i % 4 = 1 -> CorpusGenres
                            [] OTHER     -> <<CorpusGenres[1]>>]]

Corpus(n) == [i \in 1..n |-> Doc(i)]

\* The values of a document in a field (genre is multi-valued)
FieldValues(doc, field) ==
  CASE field = "author.keyword" -> {doc._source.author}
    [] field = "genre"          -> {doc._source.genre[k] : k \in DOMAIN doc._source.genre}
    [] OTHER                    -> {doc._source.releaseYear}

\* A terms clause: some value of the field is one of the listed values
PassesTerms(doc, clause) ==
  \E j \in DOMAIN clause.values : clause.values[j] \in FieldValues(doc, clause.field)

FieldKeys(field) ==
  CASE field = "author.keyword" -> CorpusAuthors
    [] field = "genre"          -> CorpusGenres
    [] OTHER                    -> CorpusYears

\* A terms aggregation over docs: the keys that occur, with their counts, at
\* most agg.size of them
TermsBuckets(docs, agg) ==
  LET keys == FieldKeys(agg.field)
      all == [k \in DOMAIN keys |->
                Bucket(keys[k],
                       Cardinality({i \in DOMAIN docs : keys[k] \in FieldValues(docs[i], agg.field)}))]
      occurring == SelectSeq(all, LAMBDA b : b.doc_count > 0)
  IN  SubSeq(occurring, 1, IF Len(occurring) < agg.size THEN Len(occurring) ELSE agg.size)

\* The answer to the search request body over corpus; the aggregations named
\* in answered are part of it
EngineSearch(corpus, body, answered) ==
  LET passing == SelectSeq(corpus, LAMBDA d : \A j \in DOMAIN body.filter :
                                               PassesTerms(d, body.filter[j]))
      last == IF body.from + body.size < Len(passing) THEN body.from + body.size
              ELSE Len(passing)
      hits == [took |-> 1,
               hits |-> [total |-> [value |-> Len(passing)],
                         hits |-> SubSeq(passing, body.from + 1, last)]]
      aggNames == {body.aggs[k].name : k \in DOMAIN body.aggs} \cap answered
  IN  IF aggNames = {} THEN hits
      ELSE hits @@ [aggregations |->
                      [name \in aggNames |->
                         [buckets |-> TermsBuckets(passing,
                                        body.aggs[CHOOSE k \in DOMAIN body.aggs :
                                                    body.aggs[k].name = name])]]]

Facets == {"authors", "genres", "years"}
AnsweredAggregations == {Facets, {"authors"}, {}}
CorpusSizes == 0..MaxCorpus

\* The engine can answer a search whose window is well-formed
WellFormedWindow(body) == body.from \in Nat /\ body.size \in Nat

\* The engine answers the search of the search handler: corpus is what matches
\* the text of the request
EngineSearchAnswer(corpus, answered) ==
  /\ endpoint = "search"
  /\ promises["search"].state = "pending"
  /\ WellFormedWindow(calls[1].body)
  /\ LET R == EngineSearch(corpus, calls[1].body, answered)
     IN  /\ promises' = [promises EXCEPT
                           !["search"] = [state |-> "fulfilled", value |-> ClientReturn(R)]]
         /\ engineResult' = [engineResult EXCEPT !["search"] = R]
  /\ matching' = corpus
  /\ UNCHANGED <<clientVars, nameVars, seedVars, engineVars, serverVariant, isOpenSearch, hasPhoneticFields, phoneticProbe, pc,
                 endpoint, req, locals, allPromise, calls, response>>

PagingTexts == {Undefined, <<"d", "a">>}
PageParams == {Undefined, <<"1">>, <<"2">>, <<"3">>}
SizeParams == {Undefined, <<"1">>, <<"5">>, <<"1", "2">>}
SortParams == {"undefined", "rating", "title", "year", "trending", "popular"}
SearchYearParams ==
  YearParams \cup {<<"0", ",", "1", "9", "9", "9">>, <<"I", "n", "f", "i", "n", "i", "t", "y">>}
SuggestYearQueries == {<<"a", "a", " ", "2", "0">>}

NextSearch ==
  \/ \E outcome \in ProbeOutcomes : checkPhoneticSupport(outcome)
  \/ \E q \in SuggestYearQueries, y \in SearchYearParams :
       SuggestRequest(q, Undefined, Undefined, y)
  \/ \E q \in PagingTexts, page \in PageParams, size \in SizeParams :
       SearchRequest(q, page, size, Undefined, Undefined, Undefined, "undefined")
  \/ \E a \in AuthorParams, g \in GenreParams, y \in SearchYearParams :
       \E sort \in {"undefined", "rating"} :
         SearchRequest(Undefined, Undefined, Undefined, a, g, y, sort)
  \/ \E sort \in SortParams, page \in {Undefined, <<"2">>} :
       SearchRequest(<<"d", "a">>, page, Undefined, Undefined, Undefined, Undefined, sort)
  \/ \E c \in CategorySet : EngineResolve(c, SampleResult(c))
  \/ \E n \in CorpusSizes, answered \in AnsweredAggregations :
       EngineSearchAnswer(Corpus(n), answered)
  \/ \E c \in Slots : EngineReject(c, EngineError(c))
  \/ SuggestRespond
  \/ SearchRespond
  \/ NextRequest

\* Process start of either server
InitServers == Init \/ Init2

SpecSearch == InitServers /\ [][NextSearch]_vars

SearchDone == endpoint = "search" /\ pc = "done"
SearchSucceeded == SearchDone /\ response.status = 200

PhoneticFields == {"title.phonetic", "author.phonetic"}

\* The match clauses of an issued search
ClausesOf(call) ==
  IF call.category = "search"
  THEN IF Has(call.body.must[1], "should") THEN call.body.must[1].should ELSE <<>>
  ELSE call.body.should

HasPhoneticClause(call) ==
  \E j \in DOMAIN ClausesOf(call) : ClausesOf(call)[j].field \in PhoneticFields

\* C11 (as claimed): while the phonetic-capability flag is false, no query
\* built by the suggest or the search handler has a clause on title.phonetic
\* or author.phonetic.
C11_PhoneticClausesGated ==
  \A i \in DOMAIN calls : HasPhoneticClause(calls[i]) => hasPhoneticFields

\* The parsed filter set of a dimension of the search request
RequestFilter(dim) ==
  CASE dim = "author.keyword" -> locals.authorList
    [] dim = "genre"          -> locals.genreList
    [] OTHER                  -> locals.yearList

\* The document passes the filter of every dimension whose set is non-empty
InRequestFilters(doc) ==
  \A d \in FilterDimensions :
    Len(RequestFilter(d)) > 0 =>
      \E j \in DOMAIN RequestFilter(d) : RequestFilter(d)[j] \in FieldValues(doc, d)

\* The documents that match the request, in the engine's order
ExpectedDocs == SelectSeq(matching, InRequestFilters)

\* The aggregations the engine answered with
Answered ==
  IF Has(engineResult["search"], "aggregations")
  THEN DOMAIN engineResult["search"].aggregations ELSE {}

PageNumber == IF req.page = Undefined THEN 1 ELSE DigitsValue(req.page)
PageSize == IF req.size = Undefined THEN 12 ELSE DigitsValue(req.size)
Min(a, b) == IF a < b THEN a ELSE b
Max(a, b) == IF a > b THEN a ELSE b

\* C12: a successful search over N matching documents answers total = N and
\* the min(size, max(0, N - (page-1)*size)) documents from offset
\* (page-1)*size on, page defaulting to 1 and size to 12.
C12_PageOfResults ==
  SearchSucceeded =>
    LET N == Len(ExpectedDocs)
        offset == (PageNumber - 1) * PageSize
        count == Min(PageSize, Max(0, N - offset))
    IN  /\ response.body.total = N
        /\ response.body.page = PageNumber
        /\ response.body.size = PageSize
        /\ Len(response.body.results) = count
        /\ \A i \in 1..count :
             response.body.results[i].id = ExpectedDocs[offset + i]._id

\* C12 witness: page 2 at the default size over 21 matching documents has 9
\* results, the first of them the 13th document
C12_Witness ==
  /\ SearchSucceeded
  /\ req.page = <<"2">>
  /\ req.size = Undefined
  /\ Len(matching) = 21
  /\ response.body.total = 21
  /\ Len(response.body.results) = 9
  /\ response.body.results[1].id = 13

\* The values of a result in a dimension
ResultValues(result, dim) ==
  CASE dim = "author.keyword" -> {result.author}
    [] dim = "genre"          -> {result.genre[k] : k \in DOMAIN result.genre}
    [] OTHER                  -> {result.releaseYear}

\* C13: the search query has a terms filter for a dimension iff the parsed set
\* of that dimension is non-empty, on exactly the parsed values; every result
\* has, in every filtered dimension, one of the values of the set, and the
\* total counts exactly the documents that do.
C13_HardFilters ==
  (endpoint = "search" /\ calls # <<>>) =>
    LET fl == calls[1].body.filter
        included == {d \in FilterDimensions : Len(RequestFilter(d)) > 0}
    IN  /\ {fl[j].field : j \in DOMAIN fl} = included
        /\ Len(fl) = Cardinality(included)
        /\ \A j \in DOMAIN fl : fl[j].values = RequestFilter(fl[j].field)
        /\ SearchSucceeded =>
             /\ \A i \in DOMAIN response.body.results : \A d \in included :
                  \E j \in DOMAIN RequestFilter(d) :
                    RequestFilter(d)[j] \in ResultValues(response.body.results[i], d)
             /\ response.body.total = Len(ExpectedDocs)

\* C13 witness: all three dimensions are filtered, and some but not all of the
\* documents of the corpus passed
C13_Witness ==
  /\ SearchSucceeded
  /\ \A d \in FilterDimensions : Len(RequestFilter(d)) > 0
  /\ Len(calls[1].body.filter) = 3
  /\ response.body.results # <<>>
  /\ response.body.total < Len(matching)

\* C14: every search is sent with exactly one sort key: rating descending,
\* title ascending, release year descending, trending descending, and the
\* relevance score for an absent or any other sort value.
C14_OneSortKey ==
  (endpoint = "search" /\ calls # <<>>) =>
    LET so == calls[1].body.sort
    IN  /\ Len(calls) = 1
        /\ Len(so) = 1
        /\ req.sort = "rating" => so[1] = [field |-> "rating", order |-> "desc"]
        /\ req.sort = "title" => so[1] = [field |-> "title.keyword", order |-> "asc"]
        /\ req.sort = "year" => so[1] = [field |-> "releaseYear", order |-> "desc"]
        /\ req.sort = "trending" => so[1] = [field |-> "trending", order |-> "desc"]
        /\ req.sort \notin {"rating", "title", "year", "trending"} => so[1].field = "_score"

\* C14 witness: a search with an unknown sort value was answered, sorted by score
C14_Witness ==
  /\ SearchSucceeded
  /\ req.sort = "popular"
  /\ calls[1].body.sort[1].field = "_score"
  /\ response.body.results # <<>>

\* The aggregation the search query asks for under a facet name
FacetAggregation(name) ==
  calls[1].body.aggs[CHOOSE k \in DOMAIN calls[1].body.aggs : calls[1].body.aggs[k].name = name]

\* C15: every search asks, in the one query that also carries the filters and
\* the page, for the author, genre and year aggregations of at most 20 buckets;
\* a successful response has a facets object of three lists, each the buckets
\* over the documents passing all three filters, or empty when the engine
\* answered without that aggregation.
C15_FacetsFromSameQuery ==
  (endpoint = "search" /\ calls # <<>>) =>
    LET aggs == calls[1].body.aggs
    IN  /\ Len(calls) = 1
        /\ Len(aggs) = 3
        /\ {<<aggs[k].name, aggs[k].field, aggs[k].size>> : k \in DOMAIN aggs}
             = {<<"authors", "author.keyword", 20>>, <<"genres", "genre", 20>>,
                <<"years", "releaseYear", 20>>}
        /\ SearchSucceeded =>
             /\ DOMAIN response.body.facets = Facets
             /\ \A name \in Facets :
                  response.body.facets[name] =
                    IF name \in Answered
                    THEN TermsBuckets(ExpectedDocs, FacetAggregation(name))
                    ELSE <<>>

\* C15 witness: a filtered search was answered by the engine with the
\* authors aggregation only: the authors facet counts the filtered documents,
\* the other two facets are empty
C15_Witness ==
  /\ SearchSucceeded
  /\ Len(locals.genreList) > 0
  /\ Len(locals.yearList) > 0
  /\ Answered = {"authors"}
  /\ response.body.facets.authors # <<>>
  /\ response.body.facets.genres = <<>>
  /\ response.body.facets.years = <<>>
  /\ response.body.facets.authors[1].doc_count < Len(matching)

\* An entry of the years parameter that is a decimal numeral, and its value
NumericEntry(e) == Trim(e) # <<>> /\ \A i \in DOMAIN Trim(e) : Trim(e)[i] \in Digits

\* The numeric entries of the years parameter as integers, in order
NumericYears(param) ==
  IF Falsy(param) THEN <<>>
  ELSE LET numeric == SelectSeq(Split(param, ","), NumericEntry)
       IN  [i \in DOMAIN numeric |-> DigitsValue(Trim(numeric[i]))]

ParsedYears == IF endpoint = "suggest" THEN locals.activeFilters.years ELSE locals.yearList

\* C16 (as claimed): the year filter of a suggest or search request holds
\* exactly the numeric entries of the years parameter, as integers, and the
\* request is answered 200 when no engine search failed.
C16_NonNumericYearsDropped ==
  (endpoint \in {"suggest", "search"} /\ locals # NoLocals) =>
    /\ ParsedYears = NumericYears(req.years)
    /\ (pc = "done" /\ \A c \in Slots : promises[c].state # "rejected") =>
          response.status = 200

(***************************************************************************)
(* SpecNames: either name-variant service from module load, getNameVariants*)
(* called with first names one call after the other, the external request  *)
(* of a call timing out, failing, or being answered with any status and    *)
(* body, the bindings of a well-formed body being any sequence of up to    *)
(* MaxBindings bindings.                                                   *)
(***************************************************************************)
MaxBindings == 2

AuthorNames ==
  {<<"a", "l">>, <<"A", "l", " ", "B", "o">>, <<"b", "o", " ", "x">>, <<"J", "o">>,
   <<"j", "o", "h", "a", "n", " ", "x">>, <<>>}

\* What getNameVariants is called with
NameInputs == {extractFirstName(a) : a \in AuthorNames} \cup {<<"A", "l", " ">>}

Binding(label) == [variantLabel |-> [value |-> label]]
SampleBindings ==
  {Binding(<<"B", "o">>), Binding(<<"a", "l">>), Binding(<<"x">>), Binding(<<"b", "0">>),
   [variant |-> [value |-> <<"b", "o">>]]}

Response(ok, body, bindings) ==
  [kind |-> "response", ok |-> ok, body |-> body, bindings |-> bindings]

\* How the external request of a call can end
FetchOutcomes ==
  {[kind |-> "abort", ok |-> FALSE, body |-> "none", bindings |-> <<>>],
   [kind |-> "error", ok |-> FALSE, body |-> "none", bindings |-> <<>>],
   Response(FALSE, "malformed", <<>>),
   Response(TRUE, "malformed", <<>>),
   Response(TRUE, "null", <<>>),
   Response(TRUE, "empty", <<>>)}
  \cup {Response(TRUE, "results", bs) : bs \in SeqsUpTo(SampleBindings, MaxBindings)}

NextNames ==
  \/ \E firstName \in NameInputs : getNameVariants(firstName)
  \/ \E outcome \in FetchOutcomes : FetchSettle(outcome)
  \/ NextLookup

SpecNames == InitSeed /\ [][NextNames]_vars

LookupDone == lookup.pc = "done"
Returned == {lookup.value[i] : i \in DOMAIN lookup.value}

\* C17: a call whose normalized name is a key of the cache, whatever the list
\* under it, returns that list at once: no external request is issued and the
\* cache is left as it was.
C17_CacheHitShortCircuits ==
  [][(/\ lookup.pc = "idle"
      /\ lookup'.pc # "idle"
      /\ IsString(lookup'.firstName)
      /\ NormalizeName(lookup'.firstName) \in DOMAIN cache)
     => /\ lookup'.pc = "done"
        /\ lookup'.outcome = "returned"
        /\ lookup'.value = cache[NormalizeName(lookup'.firstName)]
        /\ ~lookup'.fetched
        /\ cache' = cache]_vars

\* C17 witness: a name that differs from its normalized form was answered from
\* a key holding the empty list
C17_Witness ==
  /\ LookupDone
  /\ lookup.outcome = "returned"
  /\ ~lookup.fetched
  /\ lookup.firstName # lookup.normalizedName
  /\ lookup.normalizedName \in DOMAIN cache
  /\ lookup.value = <<>>

\* C18: a cache-miss call whose request timed out or got a non-success status
\* returns the empty list and leaves the empty list under its name; the entry
\* stays, and every later call for the name returns the empty list without an
\* external request.
C18_NegativeCaching ==
  /\ (LookupDone /\ lookup.response \in {"abort", "status"}) =>
        /\ lookup.outcome = "returned"
        /\ lookup.value = <<>>
        /\ lookup.normalizedName \in DOMAIN cache
        /\ cache[lookup.normalizedName] = <<>>
  /\ \A n \in history.failed : n \in DOMAIN cache /\ cache[n] = <<>>
  /\ (lookup.pc # "idle" /\ IsString(lookup.firstName)
        /\ lookup.normalizedName \in history.failed) =>
        /\ LookupDone
        /\ lookup.outcome = "returned"
        /\ lookup.value = <<>>
        /\ ~lookup.fetched

\* C18 witness: after the lookup of a name had timed out, the name came back
\* as a variant of another name, and a later call for it was answered with
\* the empty list from the cache
C18_Witness ==
  /\ LookupDone
  /\ nameService = "family"
  /\ lookup.normalizedName \in history.failed
  /\ ~lookup.fetched
  /\ lookup.value = <<>>
  /\ \E p \in history.pairs : p[2] = lookup.normalizedName

\* C19 (as claimed): every call of getNameVariants, whatever its argument and
\* whatever the outcome of its external request, completes by returning a
\* list; no error reaches the caller.
C19_NeverFails ==
  LookupDone => lookup.outcome = "returned"

\* C20 (as claimed): once a call for A has returned a list containing B, every
\* later call for B returns a list containing A and issues no external
\* request.
C20_FamilyClosure ==
  (LookupDone /\ IsString(lookup.firstName)) =>
    \A p \in history.pairs :
      p[2] = lookup.firstName =>
        /\ lookup.outcome = "returned"
        /\ p[1] \in Returned
        /\ ~lookup.fetched

\* The names of a variant list
Members(list) == {list[i] : i \in DOMAIN list}

\* C21 (as claimed): in the cache filled by family lookups, for all cached
\* names a and b, if b is in the list of a then a is in the list of b, and
\* the list of a plus a is the list of b plus b.
C21_SymmetricClosedCache ==
  nameService = "family" =>
    \A a \in DOMAIN cache : \A b \in DOMAIN cache :
      b \in Members(cache[a]) =>
        /\ a \in Members(cache[b])
        /\ Members(cache[a]) \cup {a} = Members(cache[b]) \cup {b}

\* C22: whatever a call does, a name that is a key of the cache keeps exactly
\* the list it has; the writes of a lookup (the family loop, the entry of the
\* requested name) only add keys.
C22_ExistingEntriesKept ==
  [][\A n \in DOMAIN cache : n \in DOMAIN cache' /\ cache'[n] = cache[n]]_vars

\* C22 witness: a successful family lookup returned a name that is a key whose
\* list is not the rest of the family just fetched, so the key was there
\* before and was left alone
C22_Witness ==
  /\ LookupDone
  /\ nameService = "family"
  /\ lookup.response = "ok"
  /\ \E b \in Returned :
       /\ b \in DOMAIN cache
       /\ cache[b] # <<>>
       /\ cache[b] # Without(<<lookup.normalizedName>> \o lookup.value, b)

\* part_000 lines 20-253: sampleBooks; of each book the title and the author,
\* the fields the enrichment reads or that tell the books apart
sampleBooks ==
  <<[title |-> "Min dotters man",
     author |-> <<"D", "a", "n", "i", "e", "l", " ", "H", "u", "r", "s", "t">>],
    [title |-> "Min dotters pojkvän",
     author |-> <<"D", "a", "n", "i", "e", "l", " ", "H", "u", "r", "s", "t">>],
    [title |-> "Den yttersta hemligheten",
     author |-> <<"D", "a", "n", " ", "B", "r", "o", "w", "n">>],
    [title |-> "Kickoff",
     author |-> <<"L", "e", "n", "a", " ", "B", "e", "r", "g", "l", "i", "n">>],
    [title |-> "Roadtrip",
     author |-> <<"L", "e", "n", "a", " ", "B", "e", "r", "g", "l", "i", "n">>],
    [title |-> "Läkarens fru",
     author |-> <<"D", "a", "n", "i", "e", "l", " ", "H", "u", "r", "s", "t">>],
    [title |-> "Fadern",
     author |-> <<"M", "o", "n", "i", "c", "a", " ", "R", "e", "h", "n">>],
    [title |-> "The Housemaid",
     author |-> <<"F", "r", "e", "i", "d", "a", " ", "M", "c", "F", "a", "d", "d", "e", "n">>],
    [title |-> "Gästspelet",
     author |-> <<"L", "i", "n", "d", "a", " ", "S", "t", "å", "h", "l">>],
    [title |-> "Djävulens advokat",
     author |-> <<"S", "t", "e", "v", "e", " ", "C", "a", "v", "a", "n", "a", "g", "h">>],
    [title |-> "Advokaten",
     author |-> <<"S", "t", "e", "v", "e", " ", "C", "a", "v", "a", "n", "a", "g", "h">>],
    [title |-> "Jag Är Zlatan Ibrahimovic : Min Historia",
     author |-> <<"Z", "l", "a", "t", "a", "n", " ", "I", "b", "r", "a", "h", "i", "m", "o", "v", "i", "c">>],
    [title |-> "Jag Är Zlatan",
     author |-> <<"Z", "l", "a", "t", "a", "n", " ", "I", "b", "r", "a", "h", "i", "m", "o", "v", "i", "c">>],
    [title |-> "Thrill Ride",
     author |-> <<"J", "a", "m", "e", "s", " ", "P", "a", "t", "t", "e", "r", "s", "o", "n">>],
    [title |-> "Flickan med draktatueringen",
     author |-> <<"S", "t", "i", "e", "g", " ", "L", "a", "r", "s", "s", "o", "n">>],
    [title |-> "Snömannen",
     author |-> <<"J", "o", " ", "N", "e", "s", "b", "ø">>],
    [title |-> "Gone Girl",
     author |-> <<"G", "i", "l", "l", "i", "a", "n", " ", "F", "l", "y", "n", "n">>],
    [title |-> "The Girl on the Train",
     author |-> <<"P", "a", "u", "l", "a", " ", "H", "a", "w", "k", "i", "n", "s">>],
    [title |-> "Hypnotisören",
     author |-> <<"L", "a", "r", "s", " ", "K", "e", "p", "l", "e", "r">>],
    [title |-> "Sandmannen",
     author |-> <<"L", "a", "r", "s", " ", "K", "e", "p", "l", "e", "r">>],
    [title |-> "Mördarens ape",
     author |-> <<"C", "h", "r", "i", "s", "t", "o", "p", "h", "e", "r", " ", "L", "ä", "c", "k", "b", "e", "r", "g">>]>>

\* part_000 lines 465-474: a book with the first name of its author and the
\* variants looked up for it.  extractFirstName(...)?.toLowerCase() is
\* undefined for the null of a book without an author name, and
\* variantsMap.get(firstName) || [] is the empty list for a name that was not
\* looked up.
EnrichBook(book, vmap) ==
  LET first     == extractFirstName(book.author)
      firstName == IF first = JsNull THEN Undefined ELSE ToLowerCase(first)
      variants  == IF Falsy(firstName) THEN <<>>
                   ELSE IF firstName \in DOMAIN vmap THEN vmap[firstName] ELSE <<>>
  IN  [title |-> book.title, author |-> book.author,
       authorFirstName |-> firstName, nameVariants |-> variants]

\* part_000 line 464: enrichedBooks
EnrichedBooks(books, vmap) == [i \in DOMAIN books |-> EnrichBook(books[i], vmap)]

\* The books of the authors whose names are looked up
AuthorBooks == {[title |-> "t", author |-> a] : a \in AuthorNames}

\* C23: the list a call returns does not contain the normalized name it was
\* called for, no key of the cache is in its own list, and no enriched book
\* has its authorFirstName among its nameVariants.
C23_NoSelfVariant ==
  /\ (LookupDone /\ lookup.outcome = "returned") => lookup.normalizedName \notin Returned
  /\ \A n \in DOMAIN cache : n \notin Members(cache[n])
  /\ \A book \in AuthorBooks :
       LET enriched == EnrichBook(book, variantsMap)
       IN  enriched.authorFirstName \notin Members(enriched.nameVariants)

\* C23 witness: a fetched family put two names into each other's list, each
\* list without its own key, and a book whose author has one of the names as
\* first name has been given the list returned for it
C23_Witness ==
  /\ nameService = "family"
  /\ \E book \in AuthorBooks :
       LET enriched == EnrichBook(book, variantsMap)
       IN  /\ book.author # enriched.authorFirstName
           /\ enriched.nameVariants # <<>>
           /\ enriched.authorFirstName \in DOMAIN cache
           /\ \E b \in Members(enriched.nameVariants) :
                /\ b \in DOMAIN cache
                /\ enriched.authorFirstName \in Members(cache[b])

(***************************************************************************)
(* The external request in two stages: the fetch promise resolves when the *)
(* response headers are in, the body is read by response.json() after the  *)
(* timer has been cleared.                                                 *)
(***************************************************************************)

\* lines 52-60 and 193-202: the fetch resolves with a success status while
\* the 5 s timer is pending; clearTimeout(timeout) runs and the call awaits
\* response.json()
FetchHeaders ==
  /\ lookup.pc = "fetch"
  /\ lookup' = [lookup EXCEPT !.pc = "body", !.response = "ok"]
  /\ UNCHANGED <<clientVars, nameService, overlap, cache, history, serverVars, seedVars, engineVars>>

\* How the read of the body can end: the stream fails, or the body is
\* complete
BodyOutcomes == {o \in FetchOutcomes : o.kind = "error" \/ (o.kind = "response" /\ o.ok)}

\* lines 68-109 and 210-236: response.json() settles and the call returns
BodySettle(outcome) ==
  /\ lookup.pc = "body"
  /\ LET settled == IF nameService = "family"
                    THEN SettleFamily(cache, lookup.normalizedName, outcome)
                    ELSE SettlePreseeded(cache, lookup.normalizedName, outcome)
     IN  /\ cache' = settled.cache
         /\ lookup' = [lookup EXCEPT !.pc = "done", !.outcome = "returned",
                                     !.value = settled.value,
                                     !.response = IF outcome.kind = "error" THEN "error"
                                                  ELSE "ok"]
  /\ UNCHANGED <<clientVars, nameService, overlap, history, serverVars, seedVars, engineVars>>

\* lines 49-50 and 190-191: the timer set before the fetch fires while the
\* fetch is pending and aborts it
TimeoutAbort ==
  FetchSettle([kind |-> "abort", ok |-> FALSE, body |-> "none", bindings |-> <<>>])

NextNamesStaged ==
  \/ \E firstName \in NameInputs : getNameVariants(firstName)
  \/ \E outcome \in FetchOutcomes : FetchSettle(outcome)
  \/ FetchHeaders
  \/ \E outcome \in BodyOutcomes : BodySettle(outcome)
  \/ NextLookup

\* The endpoint is free to answer or not.  The timer fires if the fetch stays
\* pending, and the caller goes on once its call has settled.
SpecNamesStaged ==
  /\ InitSeed
  /\ [][NextNamesStaged]_vars
  /\ WF_vars(TimeoutAbort)
  /\ WF_vars(NextLookup)

\* C24 (as claimed): every call of getNameVariants that has started completes,
\* whatever the endpoint does: no answer, an answer after the timeout, or
\* headers and then a body that never completes.
C24_EveryCallReturns ==
  (lookup.pc # "idle") ~> LookupDone

(***************************************************************************)
(* Lookups for names at the edge of what a first name can be.              *)
(***************************************************************************)

\* A one-letter name, an ordinary name, the empty and a white-space-only
\* string, and the null that extractFirstName returns for a missing name
EdgeInputs == {<<"x">>, <<"a", "l">>, <<>>, <<" ", " ">>, extractFirstName(<<>>)}

NextNamesEdge ==
  \/ \E firstName \in EdgeInputs : getNameVariants(firstName)
  \/ \E outcome \in FetchOutcomes : FetchSettle(outcome)
  \/ NextLookup

SpecNamesEdge == InitSeed /\ [][NextNamesEdge]_vars

\* What the claim calls a valid variant: a non-empty string of letters, spaces,
\* hyphens and apostrophes of length 2 to 20
Letters == LowerLetters \cup UpperLetters \cup (LatinSupplement \ {"×", "÷"})
ValidVariant(name) ==
  /\ name # <<>>
  /\ \A i \in 1..Len(name) : name[i] \in Letters \cup WhiteSpace \cup {"-", "'"}
  /\ Len(name) >= 2
  /\ Len(name) <= 20

\* C25 (as claimed): every name a lookup returns as a variant, and every name
\* in a variant list of the cache, is a valid variant.
C25_VariantsAreValid ==
  /\ (LookupDone /\ lookup.outcome = "returned") => \A v \in Returned : ValidVariant(v)
  /\ \A n \in DOMAIN cache : \A v \in Members(cache[n]) : ValidVariant(v)

\* null, the empty string or a string of white space only
BlankInput(firstName) == ~IsString(firstName) \/ Trim(firstName) = <<>>

\* C26 (as claimed): a call whose argument is null, empty or white space only
\* issues no external request and adds no entry to the cache (the entry of
\* such a call would be the one under the empty name).
C26_BlankInputIsInert ==
  /\ (lookup.pc # "idle" /\ BlankInput(lookup.firstName)) => ~lookup.fetched
  /\ <<>> \notin DOMAIN cache

(***************************************************************************)
(* The engine's side of the authors suggestion: the text analysis that the *)
(* index settings of the seed script ask for, and the terms aggregation.   *)
(***************************************************************************)
MIN_GRAM == 2
MAX_GRAM == 15

\* part_000 lines 305-322: the standard tokenizer and the lowercase filter, on
\* texts of letters, digits and white space
AnalyzedWords(text) == Members(FilterBoolean(SplitWhitespace(ToLowerCase(text))))

\* part_000 lines 292-296: edge_ngram_filter
EdgeNGrams(word) ==
  {SubSeq(word, 1, n) : n \in MIN_GRAM..(IF Len(word) < MAX_GRAM THEN Len(word) ELSE MAX_GRAM)}

\* autocomplete_index and autocomplete_search (part_000 lines 312-322)
AutocompleteIndexTokens(text) == UNION {EdgeNGrams(w) : w \in AnalyzedWords(text)}
AutocompleteSearchTokens(text) == AnalyzedWords(text)

\* The index tokens of a document in an analyzed field (part_000 lines
\* 371-379 and 421-425); the index of the model has no phonetic sub-field
FieldTokens(doc, field) ==
  CASE field = "author.autocomplete" -> AutocompleteIndexTokens(doc._source.author)
    [] field = "nameVariants" ->
         UNION {AutocompleteIndexTokens(doc._source.nameVariants[k]) :
                  k \in DOMAIN doc._source.nameVariants}
    [] OTHER -> {}

\* A match clause with the operator or: some token of the query is a token of
\* the field
MatchesClause(doc, clause) ==
  AutocompleteSearchTokens(clause.query) \cap FieldTokens(doc, clause.field) # {}

\* The order of strings by code point, on the characters of the model
CharRank(c) ==
  IF c = " " THEN 0
  ELSE IF c \in UpperLetters THEN CHOOSE i \in 1..26 : UpperAlphabet[i] = c
  ELSE IF c \in LowerLetters THEN 26 + (CHOOSE i \in 1..26 : LowerAlphabet[i] = c)
  ELSE 53
RECURSIVE StrLess(_, _)
StrLess(a, b) ==
  IF b = <<>> THEN FALSE
  ELSE IF a = <<>> THEN TRUE
  ELSE IF CharRank(a[1]) # CharRank(b[1]) THEN CharRank(a[1]) < CharRank(b[1])
  ELSE StrLess(Tail(a), Tail(b))

\* The buckets of a terms aggregation in their default order: the larger
\* count first, equal counts by key
RECURSIVE OrderedBuckets(_)
OrderedBuckets(buckets) ==
  IF buckets = {} THEN <<>>
  ELSE LET first == CHOOSE b \in buckets :
                      \A c \in buckets \ {b} :
                        \/ b.doc_count > c.doc_count
                        \/ (b.doc_count = c.doc_count /\ StrLess(b.key, c.key))
       IN  <<first>> \o OrderedBuckets(buckets \ {first})

\* The answer of the engine to the authors search of the suggest handler
\* (lines 450-480) over docs
EngineSuggestAuthors(docs, body) ==
  LET found == SelectSeq(docs, LAMBDA d :
                 /\ \E j \in DOMAIN body.should : MatchesClause(d, body.should[j])
                 /\ \A j \in DOMAIN body.filter : PassesTerms(d, body.filter[j]))
      keys == {found[i]._source.author : i \in DOMAIN found}
      buckets == {Bucket(k, Cardinality({i \in DOMAIN found : found[i]._source.author = k})) :
                    k \in keys}
      ordered == OrderedBuckets(buckets)
  IN  AggResult(body.aggs.name,
                SubSeq(ordered, 1, IF Len(ordered) < body.aggs.size THEN Len(ordered)
                                   ELSE body.aggs.size))
       @@ [hits |-> [total |-> [value |-> Len(found)], hits |-> <<>>]]

\* The engine answers the authors search of the current suggest request from
\* the index
EngineAuthorsAnswer ==
  /\ endpoint = "suggest"
  /\ INDEX_NAME \in DOMAIN indices
  /\ \E i \in DOMAIN calls :
       /\ calls[i].category = "authors"
       /\ EngineResolve("authors", EngineSuggestAuthors(indices[INDEX_NAME], calls[i].body))

(***************************************************************************)
(* SpecSuggest: suggest requests answered from an index of up to           *)
(* MaxIndexed books.                                                       *)
(***************************************************************************)
MaxIndexed == 5

IndexedBook(id, author, genre, year, variants) ==
  [_id |-> id, _score |-> 1,
   _source |-> [title |-> <<"A", "b">>, author |-> author, releaseYear |-> year,
                rating |-> 4, genre |-> genre, nameVariants |-> variants]]

\* Book i of the index: two by Daniel Hurst, one by Dan Brown, one by Lena
\* Berglin, and so on in turn, with the variants of the table of lines
\* 255-333 for their first names
SuggestDoc(i) ==
  CASE i % 4 = 1 -> IndexedBook(i, <<"D", "a", "n", "i", "e", "l", " ", "H", "u", "r", "s", "t">>, <<<<"X">>>>, 2020,
                                initializeCommonVariants[<<"d", "a", "n", "i", "e", "l">>])
    [] i % 4 = 2 -> IndexedBook(i, <<"D", "a", "n", "i", "e", "l", " ", "H", "u", "r", "s", "t">>, <<<<"X", "a">>>>, 1999,
                                initializeCommonVariants[<<"d", "a", "n", "i", "e", "l">>])
    [] i % 4 = 3 -> IndexedBook(i, <<"D", "a", "n", " ", "B", "r", "o", "w", "n">>, <<<<"X">>, <<"X", "a">>>>, 2020,
                                initializeCommonVariants[<<"d", "a", "n">>])
    [] OTHER     -> IndexedBook(i, <<"L", "e", "n", "a", " ", "B", "e", "r", "g", "l", "i", "n">>, <<<<"X">>>>, 2020, <<>>)

SuggestCorpus(n) == [i \in 1..n |-> SuggestDoc(i)]

\* A serving process over an index of n books
InitSuggest ==
  /\ serverVariant = 1
  /\ isOpenSearch \in BOOLEAN
  /\ hasPhoneticFields = FALSE
  /\ phoneticProbe = "done"
  /\ InitRequest
  /\ InitNoLookups
  /\ \E n \in 0..MaxIndexed : indices = [name \in {INDEX_NAME} |-> SuggestCorpus(n)]
  /\ InitClient

SuggestTexts ==
  {<<"d", "a", "n">>, <<"D", "a", "n">>, <<"d", "a", "n", "i">>, <<"d", "a", " ", "2", "0", "2", "0">>, <<"d", "a", "n", " ", "h", "u">>, <<"l", "e">>, <<"d">>, <<"x", " ", "d", "a", "n">>}
SuggestAuthorParams == {Undefined, <<"D", "a", "n", " ", "B", "r", "o", "w", "n">>}
SuggestGenreParams == {Undefined, <<"X", "a">>}
SuggestYearParams == {Undefined, <<"2", "0", "2", "0">>}

NextSuggest ==
  \/ \E q \in SuggestTexts, a \in SuggestAuthorParams,
        g \in SuggestGenreParams, y \in SuggestYearParams : SuggestRequest(q, a, g, y)
  \/ EngineAuthorsAnswer
  \/ \E c \in CategorySet \ {"authors"} : EngineResolve(c, SampleResult(c))
  \/ \E c \in CategorySet : EngineReject(c, EngineError(c))
  \/ SuggestRespond
  \/ NextRequest

SpecSuggest == InitSuggest /\ [][NextSuggest]_vars

\* A successful answer to a request that got past the length check
SuggestAnswered == SuggestSucceeded /\ locals # NoLocals

\* The document matches the text of the request in the author's name or in
\* the name variants, and passes the genre and the year filter of the request
CountsForAuthors(doc) ==
  /\ \/ AnalyzedWords(locals.textQuery) \cap AutocompleteIndexTokens(doc._source.author) # {}
     \/ \E k \in DOMAIN doc._source.nameVariants :
          AnalyzedWords(locals.textQuery)
            \cap AutocompleteIndexTokens(doc._source.nameVariants[k]) # {}
  /\ Len(locals.activeFilters.genres) > 0 =>
       \E j \in DOMAIN locals.activeFilters.genres :
         locals.activeFilters.genres[j] \in FieldValues(doc, "genre")
  /\ Len(locals.activeFilters.years) > 0 =>
       \E j \in DOMAIN locals.activeFilters.years :
         locals.activeFilters.years[j] = doc._source.releaseYear

ExpectedCount(author) ==
  Cardinality({i \in DOMAIN indices[INDEX_NAME] :
                 /\ indices[INDEX_NAME][i]._source.author = author
                 /\ CountsForAuthors(indices[INDEX_NAME][i])})

IndexedAuthors == {indices[INDEX_NAME][i]._source.author : i \in DOMAIN indices[INDEX_NAME]}

\* C27: in a successful answer whose authors search was issued, the authors
\* list has exactly the authors (at most five) with a document matching the
\* text under the genre and year filters, whatever the author filter, each
\* with the number of such documents as its count; over two books by Daniel
\* Hurst and one by Dan Brown, q = "dan" without filters gives Daniel Hurst
\* with count 2 and Dan Brown with count 1, both with matchedTerms ["dan"].
C27_AuthorCounts ==
  (SuggestAnswered /\ TextGate(locals.textQuery)) =>
    /\ \A i \in DOMAIN response.body.authors :
         response.body.authors[i].count = ExpectedCount(response.body.authors[i].value)
    /\ \A author \in IndexedAuthors :
         ExpectedCount(author) > 0 =>
           \E i \in DOMAIN response.body.authors : response.body.authors[i].value = author
    /\ (/\ indices[INDEX_NAME] = SuggestCorpus(3)
        /\ req.q = <<"d", "a", "n">>
        /\ req.authors = <<>> /\ req.genres = <<>> /\ req.years = <<>>) =>
         response.body.authors =
           <<[value |-> <<"D", "a", "n", "i", "e", "l", " ", "H", "u", "r", "s", "t">>, count |-> 2, matchedTerms |-> <<<<"d", "a", "n">>>>],
             [value |-> <<"D", "a", "n", " ", "B", "r", "o", "w", "n">>, count |-> 1, matchedTerms |-> <<<<"d", "a", "n">>>>]>>

\* C27 witness: the case of the claim
C27_Witness ==
  /\ SuggestAnswered
  /\ indices[INDEX_NAME] = SuggestCorpus(3)
  /\ req.q = <<"d", "a", "n">>
  /\ req.authors = <<>> /\ req.genres = <<>> /\ req.years = <<>>
  /\ Len(response.body.authors) = 2
  /\ response.body.authors[1].count = 2

(***************************************************************************)
(* The seed script: main() runs createIndex and indexBooks against the     *)
(* engine; a later run is a new process.                                   *)
(***************************************************************************)
MaxBooks == 4
MaxRuns == 2

\* The sample books of the model: the first MaxBooks of the script's
SeedBooks == SubSeq(sampleBooks, 1, MaxBooks)

\* part_000 lines 441-447
UniqueFirstNames(books) ==
  LET firsts == [i \in DOMAIN books |-> extractFirstName(books[i].author)]
      truthy == SelectSeq(firsts, LAMBDA n : n # JsNull /\ ~Falsy(n))
  IN  Unique([i \in DOMAIN truthy |-> ToLowerCase(truthy[i])])

\* The names of the loop of lines 454-462 that have not been looked up yet
NamesLeft == SelectSeq(UniqueFirstNames(SeedBooks), LAMBDA n : n \notin DOMAIN variantsMap)

\* The process exits with status 1 (part_000 lines 517-520)
SeedFails == seedRun' = [seedRun EXCEPT !.pc = "failed", !.failedAt = seedRun.pc]

\* A run of the script starts: a new process, with the name-variant service
\* as it is after module load and USE_WIKIDATA as the environment has it
\* (part_000 line 18); the flag selects a log line (lines 435-439) and the
\* pause after each lookup (lines 459-461), neither of which is state here
SeedStart(useWikidata) ==
  /\ seedRun.pc \in {"none", "complete", "failed"}
  /\ seedRun.run < MaxRuns
  /\ seedRun' = [NoSeedRun EXCEPT !.pc = "health", !.run = seedRun.run + 1,
                                  !.USE_WIKIDATA = useWikidata]
  /\ cache' = IF nameService = "family" THEN EmptyCache ELSE initializeCommonVariants
  /\ lookup' = NoLookup
  /\ history' = NoHistory
  /\ variantsMap' = EmptyCache
  /\ UNCHANGED <<clientVars, nameService, overlap, serverVars, engineVars>>

\* part_000 lines 505-507: esClient.cluster.health()
ClusterHealth(ok) ==
  /\ seedRun.pc = "health"
  /\ IF ok THEN seedRun' = [seedRun EXCEPT !.pc = "exists"] ELSE SeedFails
  /\ UNCHANGED <<clientVars, nameVars, serverVars, engineVars, variantsMap>>

\* part_000 lines 256-263: esClient.indices.exists, false if the call throws
IndicesExists(answered) ==
  /\ seedRun.pc = "exists"
  /\ LET exists == answered /\ INDEX_NAME \in DOMAIN indices
     IN  seedRun' = [seedRun EXCEPT !.exists = exists,
                                    !.pc = IF exists THEN "delete" ELSE "plugins"]
  /\ UNCHANGED <<clientVars, nameVars, serverVars, engineVars, variantsMap>>

\* part_000 lines 265-268: esClient.indices.delete
IndicesDelete(ok) ==
  /\ seedRun.pc = "delete"
  /\ IF ok
     THEN /\ indices' = [n \in DOMAIN indices \ {INDEX_NAME} |-> indices[n]]
          /\ seedRun' = [seedRun EXCEPT !.pc = "plugins"]
     ELSE /\ SeedFails
          /\ UNCHANGED indices
  /\ UNCHANGED <<clientVars, nameVars, serverVars, variantsMap>>

\* What the engine answers to nodes.info({ metric: 'plugins' }): a node with
\* the phonetic plugin, or a node with another plugin and one with none
PHONETIC_PLUGIN == "analysis-phonetic"
NodesAnswer(outcome) ==
  IF outcome = "phonetic"
  THEN [nodes |-> <<[plugins |-> <<[name |-> "analysis-icu"], [name |-> PHONETIC_PLUGIN]>>]>>]
  ELSE [nodes |-> <<[plugins |-> <<[name |-> "analysis-icu"]>>], [name |-> "n2"]>>]

\* part_000 lines 273-276: the plugin is looked for in nodes.nodes
PluginFound(nodes) ==
  LET nodeValues == IF Has(nodes, "nodes") THEN nodes.nodes ELSE <<>>
  IN  \E n \in DOMAIN nodeValues :
        /\ Has(nodeValues[n], "plugins")
        /\ \E k \in DOMAIN nodeValues[n].plugins :
             nodeValues[n].plugins[k].name = PHONETIC_PLUGIN

\* part_000 lines 270-280: esClient.nodes.info, no plugin if the call throws
NodesInfo(outcome) ==
  /\ seedRun.pc = "plugins"
  /\ seedRun' = [seedRun EXCEPT
                   !.probe = outcome,
                   !.hasPhoneticPlugin = IF outcome = "error" THEN FALSE
                                         ELSE PluginFound(ClientReturn(NodesAnswer(outcome))),
                   !.pc = "create"]
  /\ UNCHANGED <<clientVars, nameVars, serverVars, engineVars, variantsMap>>

\* part_000 lines 283-339 and 343-429: the analysis settings and the fields
\* of title and author in the body of the create request
CreateBody(hasPhoneticPlugin) ==
  [filters   |-> {"swedish_stemmer", "edge_ngram_filter", "swedish_normalization"}
                   \cup (IF hasPhoneticPlugin THEN {"swedish_phonetic"} ELSE {}),
   analyzers |-> {"swedish_analyzer", "autocomplete_index", "autocomplete_search"}
                   \cup (IF hasPhoneticPlugin THEN {"phonetic_analyzer"} ELSE {}),
   titleFields  |-> {"keyword", "autocomplete"}
                      \cup (IF hasPhoneticPlugin THEN {"phonetic"} ELSE {}),
   authorFields |-> {"keyword", "autocomplete"}
                      \cup (IF hasPhoneticPlugin THEN {"phonetic"} ELSE {})]

\* part_000 lines 341-429: esClient.indices.create; the engine refuses to
\* create an index that exists
IndicesCreate(ok) ==
  /\ seedRun.pc = "create"
  /\ IF ok /\ INDEX_NAME \notin DOMAIN indices
     THEN /\ indices' = [n \in DOMAIN indices \cup {INDEX_NAME} |->
                           IF n = INDEX_NAME THEN <<>> ELSE indices[n]]
          /\ seedRun' = [seedRun EXCEPT !.pc = "lookups",
                                         !.body = CreateBody(seedRun.hasPhoneticPlugin)]
     ELSE /\ SeedFails
          /\ UNCHANGED indices
  /\ UNCHANGED <<clientVars, nameVars, serverVars, variantsMap>>

\* part_000 lines 454-455: the next name of the loop is looked up
SeedLookup ==
  /\ seedRun.pc = "lookups"
  /\ NamesLeft # <<>>
  /\ getNameVariants(NamesLeft[1])

\* The documents a bulk request adds to an index: one per item that did not
\* fail, under an identifier the engine makes up
BulkIndexed(run, books, failed) ==
  LET docs == [i \in DOMAIN books |-> [_id |-> <<run, i>>, _source |-> books[i]]]
  IN  SelectSeq(docs, LAMBDA d : d._id[2] \notin failed)

\* part_000 lines 464-500: the books are enriched and sent in one bulk
\* request; the request is rejected, or answered with the items in failed
\* reported as errors (result.items), which are logged
BulkIndex(rejected, failed) ==
  /\ seedRun.pc = "lookups"
  /\ NamesLeft = <<>>
  /\ lookup.pc = "idle"
  /\ IF rejected \/ INDEX_NAME \notin DOMAIN indices
     THEN /\ SeedFails
          /\ UNCHANGED indices
     ELSE /\ indices' = [indices EXCEPT ![INDEX_NAME] =
                           @ \o BulkIndexed(seedRun.run,
                                            EnrichedBooks(SeedBooks, variantsMap), failed)]
          /\ seedRun' = [seedRun EXCEPT !.pc = "count", !.errors = failed]
  /\ UNCHANGED <<clientVars, nameVars, serverVars, variantsMap>>

\* part_000 lines 512-516: esClient.count, then the run is complete
CountDocuments(ok) ==
  /\ seedRun.pc = "count"
  /\ IF ok THEN seedRun' = [seedRun EXCEPT !.pc = "complete"] ELSE SeedFails
  /\ UNCHANGED <<clientVars, nameVars, serverVars, engineVars, variantsMap>>

\* What the engine holds before the first run: nothing, or an index of the
\* name with a document of unknown origin
StaleIndex == [n \in {INDEX_NAME} |-> <<[_id |-> <<0, 1>>, _source |-> sampleBooks[1]]>>]

\* The script runs with either client library (part_000 lines 6-11)
InitReseed ==
  /\ InitNames
  /\ serverVariant = 1
  /\ isOpenSearch \in BOOLEAN
  /\ hasPhoneticFields = FALSE
  /\ phoneticProbe = "none"
  /\ InitRequest
  /\ indices \in {NoIndices, StaleIndex}
  /\ InitClient

\* How the lookups of a run can end
SeedFetchOutcomes ==
  {[kind |-> "abort", ok |-> FALSE, body |-> "none", bindings |-> <<>>],
   Response(TRUE, "results", <<>>),
   Response(TRUE, "results", <<Binding(<<"D", "a", "n", "i", "e", "l">>), Binding(<<"D", "a", "n", "n", "y">>)>>),
   Response(TRUE, "results", <<Binding(<<"D", "a", "n">>)>>)}

\* The items of a bulk request that fail: none, or one of them
BulkFailures == {{}} \cup {{k} : k \in DOMAIN SeedBooks}

NextSeed ==
  \/ \E useWikidata \in BOOLEAN : SeedStart(useWikidata)
  \/ \E ok \in BOOLEAN : ClusterHealth(ok)
  \/ \E answered \in BOOLEAN : IndicesExists(answered)
  \/ \E ok \in BOOLEAN : IndicesDelete(ok)
  \/ \E outcome \in ProbeOutcomes : NodesInfo(outcome)
  \/ \E ok \in BOOLEAN : IndicesCreate(ok)
  \/ SeedLookup
  \/ \E outcome \in SeedFetchOutcomes : FetchSettle(outcome)
  \/ NextLookup
  \/ \E rejected \in BOOLEAN, failed \in BulkFailures : BulkIndex(rejected, failed)
  \/ \E ok \in BOOLEAN : CountDocuments(ok)

SpecSeed == InitReseed /\ [][NextSeed]_vars

SeedComplete == seedRun.pc = "complete"

\* The engine holds the one index, with one document per sample book
OneCopyOfTheBooks ==
  /\ DOMAIN indices = {INDEX_NAME}
  /\ Len(indices[INDEX_NAME]) = Len(SeedBooks)
  /\ \A i \in DOMAIN SeedBooks : indices[INDEX_NAME][i]._source.title = SeedBooks[i].title

\* C28 (as claimed): after every run of the seed script that has gone through
\* createIndex and indexBooks to the end, first run or later, the engine
\* holds exactly the index books, with exactly one document per sample book.
C28_ReseedIdempotent ==
  SeedComplete => OneCopyOfTheBooks

\* What does hold after a complete run: the engine holds the one index, and
\* every document in it was indexed by this run, at most one per sample book
OnlyThisRunsDocuments ==
  SeedComplete =>
    /\ DOMAIN indices = {INDEX_NAME}
    /\ Len(indices[INDEX_NAME]) <= Len(SeedBooks)
    /\ \A i \in DOMAIN indices[INDEX_NAME] : indices[INDEX_NAME][i]._id[1] = seedRun.run

(***************************************************************************)
(* The client (part_002): the state object, the suggestion dropdown and    *)
(* the filter chips.  The handlers write elements as HTML text and read    *)
(* their data attributes back, so the text goes through escapeAttr and     *)
(* through the attribute parsing of the browser.                           *)
(***************************************************************************)
Quote == "\""
QuoteReference == <<"&", "q", "u", "o", "t", ";">>
AmpersandReference == <<"&", "a", "m", "p", ";">>

\* part_002 lines 442-444: escapeAttr
RECURSIVE escapeAttr(_)
escapeAttr(text) ==
  IF text = <<>> THEN <<>>
  ELSE (IF Head(text) = Quote THEN QuoteReference ELSE <<Head(text)>>) \o escapeAttr(Tail(text))

\* The text of a double-quoted attribute ends at the first quote character
RECURSIVE UpToQuote(_)
UpToQuote(raw) ==
  IF raw = <<>> \/ Head(raw) = Quote THEN <<>> ELSE <<Head(raw)>> \o UpToQuote(Tail(raw))

\* The character references of an attribute value are replaced by their
\* characters (of the named references, the two the model writes)
RECURSIVE DecodeReferences(_)
DecodeReferences(s) ==
  IF s = <<>> THEN <<>>
  ELSE IF StartsWith(s, QuoteReference)
       THEN <<Quote>> \o DecodeReferences(SubSeq(s, Len(QuoteReference) + 1, Len(s)))
  ELSE IF StartsWith(s, AmpersandReference)
       THEN <<"&">> \o DecodeReferences(SubSeq(s, Len(AmpersandReference) + 1, Len(s)))
  ELSE <<Head(s)>> \o DecodeReferences(Tail(s))

\* el.dataset.x of an element written as data-x="raw"
AttributeValue(raw) == DecodeReferences(UpToQuote(raw))

\* arr.join(sep)
RECURSIVE Join(_, _)
Join(arr, sep) ==
  IF arr = <<>> THEN <<>>
  ELSE IF Len(arr) = 1 THEN arr[1]
  ELSE arr[1] \o <<sep>> \o Join(Tail(arr), sep)

\* part_002 lines 117-183: the elements renderSuggestions writes for the
\* authors, genres, years and titles of a suggest response, with what the
\* click handler reads from them; suggestion is the item of the response
SuggestionElement(type, item) ==
  [type  |-> type,
   value |-> CASE type = "year"  -> NumToString(item.value)
               [] type = "title" -> <<>>
               [] OTHER          -> AttributeValue(escapeAttr(item.value)),
   matched |-> IF type \in {"author", "genre"}
               THEN AttributeValue(Join(item.matchedTerms, ","))
               ELSE <<>>,
   title |-> IF type = "title" THEN AttributeValue(escapeAttr(item.value)) ELSE <<>>,
   shown |-> IF type = "year" THEN NumToString(item.value) ELSE item.value,
   suggestion |-> item]

\* s.replace(/\s+/g, ' ').trim()
RECURSIVE CollapseWhitespace(_)
CollapseWhitespace(s) ==
  IF s = <<>> THEN <<>>
  ELSE IF Head(s) \in WhiteSpace
       THEN IF Len(s) > 1 /\ s[2] \in WhiteSpace THEN CollapseWhitespace(Tail(s))
            ELSE <<" ">> \o CollapseWhitespace(Tail(s))
  ELSE <<Head(s)>> \o CollapseWhitespace(Tail(s))
NormalizeSpaces(s) == Trim(CollapseWhitespace(s))

\* The length of the run of word characters of s from index i on
RECURSIVE WordRun(_, _)
WordRun(s, i) == IF i <= Len(s) /\ s[i] \in WordChars THEN 1 + WordRun(s, i + 1) ELSE 0

\* part_002 line 223: new RegExp(`\\b${escapeRegex(term)}\\w*\\b`, 'gi') at
\* index i of s: the length of the match, or -1.  The term is matched
\* literally, in either case; \w* takes the rest of the word, and the closing
\* \b then holds unless nothing was taken after a term that ends in a
\* non-word character.
TermMatchLen(s, i, term) ==
  LET n == Len(term)
      rest == WordRun(s, i + n)
  IN  IF /\ i + n - 1 <= Len(s)
         /\ WordBoundary(s, i - 1)
         /\ ToLowerCase(SubSeq(s, i, i + n - 1)) = ToLowerCase(term)
         /\ (rest > 0 \/ term[n] \in WordChars)
      THEN n + rest ELSE -1

\* part_002 line 224: newQuery.replace(regex, ''), the matches from left to right
RECURSIVE RemoveTermFrom(_, _, _)
RemoveTermFrom(s, i, term) ==
  IF i > Len(s) THEN <<>>
  ELSE LET n == TermMatchLen(s, i, term)
       IN  IF n > 0 THEN RemoveTermFrom(s, i + n, term)
           ELSE <<s[i]>> \o RemoveTermFrom(s, i + 1, term)

\* part_002 lines 220-225: matchedTerms.forEach
RECURSIVE RemoveTerms(_, _)
RemoveTerms(query, terms) ==
  IF terms = <<>> THEN query
  ELSE RemoveTerms(RemoveTermFrom(query, 1, Head(terms)), Tail(terms))

\* a !== b on numbers
StrictNotEqual(a, b) == a = NaN \/ b = NaN \/ a # b

\* arr.includes(v)
IncludesValue(arr, v) == \E i \in DOMAIN arr : arr[i] = v

\* String(year)
YearText(year) == IF year = NaN THEN <<"N", "a", "N">> ELSE NumToString(year)

\* part_002 lines 250-275: the chips renderActiveFilters writes, each with the
\* list element it shows and the value its remove handler reads
Chips(c) ==
  [i \in DOMAIN c.authors |->
     [type |-> "author", shown |-> c.authors[i],
      value |-> AttributeValue(escapeAttr(c.authors[i]))]]
  \o [i \in DOMAIN c.genres |->
     [type |-> "genre", shown |-> c.genres[i],
      value |-> AttributeValue(escapeAttr(c.genres[i]))]]
  \o [i \in DOMAIN c.years |->
     [type |-> "year", shown |-> YearText(c.years[i]), value |-> YearText(c.years[i])]]

\* The catalog the client is used over: authors, genres, a year and a title
\* of the sample books (part_000 lines 20-253), an author whose name was
\* stored with its ampersand encoded twice, and one stored family name first
ClientAuthors == {<<"J", "o", " ", "N", "e", "s", "b", "ø">>, <<"Q", "&", "a", "m", "p", ";", "a", "m", "p", ";", "A", " ", "T", "e", "a", "m">>, <<"H", "u", "r", "s", "t", ",", " ", "D", "a", "n", "i", "e", "l">>}
ClientGenres == {<<"T", "h", "r", "i", "l", "l", "e", "r">>}
ClientYears == {2024}
ClientTitles == {<<"K", "i", "c", "k", "o", "f", "f">>}

\* What the engine answers to the four searches of a suggest request for q
\* (nameVariants.js lines 449-573): the authors and titles of which a word
\* starts with a term of the text, the genres that start with one, and the
\* years; the response keeps the years that start with a year of q, and adds
\* the matched terms (lines 576-623)
SuggestResponse(q) ==
  LET l == SuggestLocals([q |-> q, authors |-> Undefined, genres |-> Undefined,
                          years |-> Undefined])
      textMatch(value) ==
        /\ TextGate(l.textQuery)
        /\ AutocompleteSearchTokens(l.textQuery) \cap AutocompleteIndexTokens(value) # {}
      item(value) == [value |-> value, matchedTerms |-> findMatchedTerms(value, l.queryTerms)]
  IN  [authors |-> {item(a) : a \in {v \in ClientAuthors : textMatch(v)}},
       titles  |-> {item(t) : t \in {v \in ClientTitles : textMatch(v)}},
       genres  |-> {item(g) : g \in
                     {v \in ClientGenres :
                        /\ TextGate(l.textQuery)
                        /\ \E k \in DOMAIN l.queryTerms :
                             StartsWith(ToLowerCase(v), l.queryTerms[k])}},
       years   |-> {[value |-> y, matchedTerms |-> <<>>] : y \in
                     {v \in ClientYears :
                        \E k \in DOMAIN l.yearPattern :
                          StartsWith(NumToString(v), l.yearPattern[k])}}]

\* part_002 lines 116-189: renderSuggestions(data)
RenderedElements(data) ==
  {SuggestionElement("title", t) : t \in data.titles}
  \cup {SuggestionElement("author", a) : a \in data.authors}
  \cup {SuggestionElement("genre", g) : g \in data.genres}
  \cup {SuggestionElement("year", y) : y \in data.years}

Event(kind, type, shown) == [kind |-> kind, type |-> type, shown |-> shown]

(***************************************************************************)
(* Requests of the page.  URLSearchParams writes the parameters in the     *)
(* application/x-www-form-urlencoded form and the server's query parser    *)
(* reads them back.                                                        *)
(***************************************************************************)
pageSize == 12

\* The characters of the model that the serializer escapes, with their
\* escapes (the UTF-8 bytes in hexadecimal); a space becomes +
PercentEscapes ==
  << <<",", <<"%", "2", "C">>>>, <<"&", <<"%", "2", "6">>>>, <<";", <<"%", "3", "B">>>>, <<"+", <<"%", "2", "B">>>>, <<"%", <<"%", "2", "5">>>>,
     <<"ø", <<"%", "C", "3", "%", "B", "8">>>> >>

EncodeChar(c) ==
  IF c = " " THEN <<"+">>
  ELSE IF \E k \in DOMAIN PercentEscapes : PercentEscapes[k][1] = c
       THEN PercentEscapes[CHOOSE k \in DOMAIN PercentEscapes : PercentEscapes[k][1] = c][2]
       ELSE <<c>>

RECURSIVE UrlEncode(_)
UrlEncode(s) == IF s = <<>> THEN <<>> ELSE EncodeChar(Head(s)) \o UrlEncode(Tail(s))

EscapeAt(s, i, k) ==
  LET esc == PercentEscapes[k][2]
  IN  i + Len(esc) - 1 <= Len(s) /\ SubSeq(s, i, i + Len(esc) - 1) = esc

RECURSIVE UrlDecodeFrom(_, _)
UrlDecodeFrom(s, i) ==
  IF i > Len(s) THEN <<>>
  ELSE IF s[i] = "+" THEN <<" ">> \o UrlDecodeFrom(s, i + 1)
  ELSE IF \E k \in DOMAIN PercentEscapes : EscapeAt(s, i, k)
       THEN LET k == CHOOSE j \in DOMAIN PercentEscapes : EscapeAt(s, i, j)
            IN  <<PercentEscapes[k][1]>> \o UrlDecodeFrom(s, i + Len(PercentEscapes[k][2]))
       ELSE <<s[i]>> \o UrlDecodeFrom(s, i + 1)

UrlDecode(s) == UrlDecodeFrom(s, 1)

\* A parameter as it is in the URL, Undefined when it is not set
UrlParam(v) == IF v = Undefined THEN Undefined ELSE UrlEncode(v)
QueryValue(v) == IF v = Undefined THEN Undefined ELSE UrlDecode(v)

\* part_002 lines 102-104 and 366-368: a filter list as a parameter
YearTexts(years) == [i \in DOMAIN years |-> YearText(years[i])]
ListParam(list) == IF Len(list) > 0 THEN Join(list, ",") ELSE Undefined

\* part_002 lines 101-104: the parameters of a suggest request
SuggestParams(c, query) ==
  [q       |-> UrlParam(query),
   authors |-> UrlParam(ListParam(c.authors)),
   genres  |-> UrlParam(ListParam(c.genres)),
   years   |-> UrlParam(ListParam(YearTexts(c.years)))]

\* part_002 lines 361-369: the parameters of a search request
SearchParamsOfFirstPage(c) ==
  [page    |-> NumToString(1),
   size    |-> NumToString(pageSize),
   q       |-> UrlParam(IF c.query # <<>> THEN c.query ELSE Undefined),
   authors |-> UrlParam(ListParam(c.authors)),
   genres  |-> UrlParam(ListParam(c.genres)),
   years   |-> UrlParam(ListParam(YearTexts(c.years))),
   sort    |-> IF c.sort # "" THEN c.sort ELSE "undefined"]
SearchParams(c) ==
  [page    |-> NumToString(c.page),
   size    |-> NumToString(pageSize),
   q       |-> UrlParam(IF c.query # <<>> THEN c.query ELSE Undefined),
   authors |-> UrlParam(ListParam(c.authors)),
   genres  |-> UrlParam(ListParam(c.genres)),
   years   |-> UrlParam(ListParam(YearTexts(c.years))),
   sort    |-> IF c.sort # "" THEN c.sort ELSE "undefined"]

\* req.query of the server for a request of the page
ReqQuery(r) == [k \in DOMAIN r |-> IF k = "sort" THEN r[k] ELSE QueryValue(r[k])]

\* The requests in flight once the request with parameters p is sent: it is
\* the newest, with the requests in flight that ask the same
Sent(inFlight, p) ==
  {[r EXCEPT !.newest = (r.params = p)] : r \in inFlight}
    \cup {[params |-> p, newest |-> TRUE]}

\* part_002 lines 92-98
hasActiveFilters(c) == Len(c.authors) > 0 \/ Len(c.genres) > 0 \/ Len(c.years) > 0

\* part_002 lines 336-369: performSearch in state c, up to its await: the
\* welcome text without a query and without filters, the request otherwise
SearchSent(c) == c.query # <<>> \/ hasActiveFilters(c)
performSearch(c) ==
  IF SearchSent(c)
  THEN /\ searches' = Sent(searches, SearchParams(c))
       /\ results' = [results EXCEPT !.view = "loading"]
  ELSE /\ results' = [results EXCEPT !.view = "welcome"]
       /\ UNCHANGED searches

\* The catalogue of the model: how many books a search matches.  Thirty
\* books match a text, but five the text hu and one the title; a genre
\* filter keeps at most 26 of them, a year filter three, an author filter two
MatchesOfText(q) ==
  IF q = Undefined THEN 40
  ELSE IF q = <<"K", "i", "c", "k", "o", "f", "f">> THEN 1
  ELSE IF q = <<"h", "u">> THEN 5
  ELSE 30
CatalogTotal(r) ==
  LET byText   == MatchesOfText(r.q)
      byGenre  == IF r.genres = Undefined THEN byText ELSE Min(byText, 26)
      byYear   == IF r.years = Undefined THEN byGenre ELSE Min(byGenre, 3)
  IN  IF r.authors = Undefined THEN byYear ELSE Min(byYear, 2)

\* Math.ceil(total / pageSize), NaN for a total that is not a number
TotalPages(total) == IF total = NaN THEN NaN ELSE (total + pageSize - 1) \div pageSize
Below(a, b) == a # NaN /\ b # NaN /\ a < b

\* part_002 lines 371-385: a search request is answered.  With "ok" the
\* response has the total and the books, which are rendered; with "error"
\* it is the server's error body, which has no total; with "failed" the
\* fetch or the parsing of the body throws
SearchOutcomes == {"ok", "error", "failed"}
FetchSearchSettle(r, outcome) ==
  /\ r \in searches
  /\ searches' = searches \ {r}
  /\ IF outcome = "failed"
     THEN /\ results' = [results EXCEPT !.view = "error"]
          /\ UNCHANGED client
     ELSE LET total == IF outcome = "ok" THEN CatalogTotal(ReqQuery(r.params)) ELSE NaN
          IN  /\ client' = [client EXCEPT !.totalResults = total]
              /\ results' = [view |-> "books",
                             prevDisabled |-> client.page <= 1,
                             nextDisabled |-> ~Below(client.page, TotalPages(total))]
  /\ UNCHANGED <<serverSide, dropdown, debounceTimer, fetches, clientEvent>>

\* part_002 lines 58-62: the change handler of the sort select
SortChange(sort) ==
  /\ sort # client.sort
  /\ client' = [client EXCEPT !.sort = sort, !.page = 1]
  /\ performSearch(client')
  /\ clientEvent' = Event("sort", "none", <<>>)
  /\ UNCHANGED <<serverSide, dropdown, debounceTimer, fetches>>

\* part_002 lines 63-68: the click handler of the previous-page button, where
\* the button is shown and enabled
PrevPage ==
  /\ results.view # "welcome"
  /\ ~results.prevDisabled
  /\ client.page > 1
  /\ client' = [client EXCEPT !.page = @ - 1]
  /\ performSearch(client')
  /\ clientEvent' = Event("prevPage", "none", <<>>)
  /\ UNCHANGED <<serverSide, dropdown, debounceTimer, fetches>>

\* part_002 lines 69-75: the click handler of the next-page button
NextPage ==
  /\ results.view # "welcome"
  /\ ~results.nextDisabled
  /\ Below(client.page, TotalPages(client.totalResults))
  /\ client' = [client EXCEPT !.page = @ + 1]
  /\ performSearch(client')
  /\ clientEvent' = Event("nextPage", "none", <<>>)
  /\ UNCHANGED <<serverSide, dropdown, debounceTimer, fetches>>

\* part_002 lines 77-90: handleInput
handleInput(query) ==
  /\ client' = [client EXCEPT !.query = query]
  /\ debounceTimer' = IF Len(query) < 2 THEN NoTimer ELSE query
  /\ dropdown' = IF Len(query) < 2 THEN [dropdown EXCEPT !.active = FALSE] ELSE dropdown
  /\ clientEvent' = Event("input", "none", query)
  /\ UNCHANGED <<serverSide, fetches, searches, results>>

\* part_002 line 89: the debounce timer fires and fetchSuggestions sends the
\* request for the query of the timer (lines 100-107)
DebounceFires ==
  /\ debounceTimer # NoTimer
  /\ fetches' = Sent(fetches, SuggestParams(client, debounceTimer))
  /\ debounceTimer' = NoTimer
  /\ UNCHANGED <<serverSide, client, dropdown, searches, results, clientEvent>>

\* part_002 lines 106-113: a suggest request is answered, and its suggestions
\* are rendered, or it fails
FetchSuggestionsSettle(r, ok) ==
  /\ r \in fetches
  /\ fetches' = fetches \ {r}
  /\ dropdown' = IF ok THEN [active |-> TRUE, q |-> ReqQuery(r.params).q] ELSE dropdown
  /\ UNCHANGED <<serverSide, client, debounceTimer, searches, results, clientEvent>>

\* part_002 line 194: el.dataset.matched ? el.dataset.matched.split(',').filter(Boolean) : []
DatasetMatched(el) ==
  IF el.matched = <<>> THEN <<>> ELSE FilterBoolean(Split(el.matched, ","))

\* part_002 lines 207-216: the filter lists after the click
FiltersAfterClick(c, el) ==
  IF el.type = "author" /\ ~IncludesValue(c.authors, el.value)
  THEN [c EXCEPT !.authors = Append(@, el.value)]
  ELSE IF el.type = "genre" /\ ~IncludesValue(c.genres, el.value)
  THEN [c EXCEPT !.genres = Append(@, el.value)]
  ELSE IF el.type = "year" /\ ~IncludesValue(c.years, ParseInt(el.value))
  THEN [c EXCEPT !.years = Append(@, ParseInt(el.value))]
  ELSE c

\* part_002 lines 219-234: the query after the click on a filter suggestion
QueryAfterClick(query, el) ==
  LET matchedTerms == DatasetMatched(el)
      stripped == IF matchedTerms # <<>>
                  THEN NormalizeSpaces(RemoveTerms(query, matchedTerms))
                  ELSE query
  IN  IF el.type = "year" THEN NormalizeSpaces(ReplaceYearPattern(stripped)) ELSE stripped

\* part_002 lines 191-245: handleSuggestionClick(el) on an element of the
\* open dropdown: the search, then the suggestions for what is left of the
\* query
handleSuggestionClick(el) ==
  /\ dropdown.active
  /\ LET after ==
           IF el.type = "title" THEN [client EXCEPT !.query = el.title, !.page = 1]
           ELSE [FiltersAfterClick(client, el) EXCEPT
                   !.query = QueryAfterClick(client.query, el), !.page = 1]
         refetch == el.type # "title" /\ Len(after.query) >= 2
     IN  /\ client' = after
         /\ performSearch(after)
         /\ fetches' = IF refetch THEN Sent(fetches, SuggestParams(after, after.query))
                       ELSE fetches
  /\ dropdown' = [dropdown EXCEPT !.active = FALSE]
  /\ clientEvent' = Event("click", el.type, el.shown)
  /\ UNCHANGED <<serverSide, debounceTimer>>

\* part_002 lines 285-304: the remove handler of a chip
RemoveChip(chip) ==
  /\ client' =
       CASE chip.type = "author" ->
              [client EXCEPT !.authors = SelectSeq(@, LAMBDA a : a # chip.value), !.page = 1]
         [] chip.type = "genre" ->
              [client EXCEPT !.genres = SelectSeq(@, LAMBDA g : g # chip.value), !.page = 1]
         [] OTHER ->
              [client EXCEPT
                 !.years = SelectSeq(@, LAMBDA y : StrictNotEqual(y, ParseInt(chip.value))),
                 !.page = 1]
  /\ performSearch(client')
  /\ clientEvent' = Event("removeChip", chip.type, chip.shown)
  /\ UNCHANGED <<serverSide, dropdown, debounceTimer, fetches>>

ClickChipRemove ==
  \E k \in DOMAIN Chips(client) : RemoveChip(Chips(client)[k])

\* part_002 lines 278-280 and 307-316: the Clear filters button, there when
\* more than one chip is
ClearFilters ==
  /\ Len(Chips(client)) > 1
  /\ client' = [client EXCEPT !.authors = <<>>, !.genres = <<>>, !.years = <<>>, !.page = 1]
  /\ performSearch(client')
  /\ clientEvent' = Event("clearFilters", "none", <<>>)
  /\ UNCHANGED <<serverSide, dropdown, debounceTimer, fetches>>

\* part_002 lines 320-334: clearAll; the sort order and the result count stay
clearAll ==
  /\ client' = [client EXCEPT !.query = <<>>, !.authors = <<>>, !.genres = <<>>,
                              !.years = <<>>, !.page = 1]
  /\ dropdown' = [dropdown EXCEPT !.active = FALSE]
  /\ results' = [results EXCEPT !.view = "welcome"]
  /\ clientEvent' = Event("clearAll", "none", <<>>)
  /\ UNCHANGED <<serverSide, debounceTimer, fetches, searches>>

\* What the user types
TypedQueries == {<<"n", "e", "s", "b", "ø", " ", "t", "e", "a", "m">>, <<"t", "h", "r", " ", "t", "h", "r", "o", "n", "e", " ", "2", "0", "2", "4", " ", "k", "i", "c", "k">>, <<"d">>}

\* The network of this specification answers a request before the next one
\* is sent, and its search requests fail: the filter lists and the query do
\* not depend on what a search answers
QuietNetwork == fetches = {} /\ searches = {}

NextClient ==
  \/ \E query \in TypedQueries : handleInput(query)
  \/ QuietNetwork /\ DebounceFires
  \/ \E r \in fetches, ok \in BOOLEAN : FetchSuggestionsSettle(r, ok)
  \/ \E r \in searches : FetchSearchSettle(r, "failed")
  \/ \E el \in RenderedElements(SuggestResponse(dropdown.q)) :
       QuietNetwork /\ handleSuggestionClick(el)
  \/ QuietNetwork /\ ClickChipRemove
  \/ QuietNetwork /\ ClearFilters
  \/ clearAll

SpecClient == InitPlain /\ [][NextClient]_vars

(***************************************************************************)
(* The filter lists of the client.                                         *)
(***************************************************************************)
NoDuplicates(list) == \A i, j \in DOMAIN list : i # j => list[i] # list[j]
FiltersDeduplicated(c) ==
  NoDuplicates(c.authors) /\ NoDuplicates(c.genres) /\ NoDuplicates(c.years)
NoFilters(c) == c.authors = <<>> /\ c.genres = <<>> /\ c.years = <<>>

\* The click on the remove button of the k-th chip takes the value the chip
\* shows out of its list, and only that
RemovesItsValue(k) ==
  LET chip == Chips(client)[k]
  IN  RemoveChip(chip) =>
        /\ client'.authors = IF chip.type = "author"
                             THEN SelectSeq(client.authors, LAMBDA a : a # chip.shown)
                             ELSE client.authors
        /\ client'.genres = IF chip.type = "genre"
                            THEN SelectSeq(client.genres, LAMBDA g : g # chip.shown)
                            ELSE client.genres
        /\ client'.years = IF chip.type = "year"
                           THEN SelectSeq(client.years, LAMBDA y : YearText(y) # chip.shown)
                           ELSE client.years

\* C29: whatever the user clicks, no filter list of the client holds a value
\* twice; the remove button of a chip deletes the chip's value from its list
\* and leaves the other two lists as they were; Clear filters and clearAll
\* leave the three lists empty
C29_FilterLists ==
  [][/\ FiltersDeduplicated(client')
     /\ \A k \in DOMAIN Chips(client) : RemovesItsValue(k)
     /\ (ClearFilters \/ clearAll) => NoFilters(client')]_vars

(***************************************************************************)
(* The query of the client after a click on a suggestion.                  *)
(***************************************************************************)
Words(query) == FilterBoolean(SplitWhitespace(query))

\* The words of the query that are none of the terms, in their order
KeptWords(query, terms) ==
  SelectSeq(Words(query), LAMBDA w : ~IncludesValue(terms, ToLowerCase(w)))

\* C30: a click on an author or genre suggestion leaves as the query the words
\* of the previous query that are not matched terms of the suggestion, in
\* their order
C30_MatchedTermsRemoved ==
  [][\A el \in RenderedElements(SuggestResponse(dropdown.q)) :
       (el.type \in {"author", "genre"} /\ handleSuggestionClick(el)) =>
         Words(client'.query) = KeptWords(client.query, el.suggestion.matchedTerms)]_vars

(***************************************************************************)
(* The cache after a family lookup.                                        *)
(***************************************************************************)
\* The list holds exactly the names of the set, each once
ListsExactly(list, names) == Members(list) = names /\ Len(list) = Cardinality(names)

\* The family of a lookup of the name that was answered with the bindings
FamilyOf(name, bindings) == {name} \cup Members(AllVariants(bindings))

\* Answers with a family: two names, a name twice and in another case, labels
\* the filters drop, a binding without a label, no binding; and a timeout
FamilyOutcomes ==
  {Response(TRUE, "results", <<Binding(<<"B", "o">>), Binding(<<"a", "l">>)>>),
   Response(TRUE, "results", <<Binding(<<"a", "l">>), Binding(<<"A", "l">>), Binding(<<"j", "o">>)>>),
   Response(TRUE, "results", <<Binding(<<"x">>), Binding(<<"b", "0">>), Binding(<<"j", "o">>)>>),
   Response(TRUE, "results", <<[variant |-> [value |-> <<"b", "o">>]], Binding(<<"j", "o", "h", "a", "n">>)>>),
   Response(TRUE, "results", <<>>),
   [kind |-> "abort", ok |-> FALSE, body |-> "none", bindings |-> <<>>]}

NextNamesFamily ==
  \/ \E firstName \in NameInputs : getNameVariants(firstName)
  \/ \E outcome \in FamilyOutcomes : FetchSettle(outcome)
  \/ NextLookup

SpecNamesFamily == InitSeed /\ [][NextNamesFamily]_vars

\* C31: when a call of the family variant that missed the cache is answered
\* with bindings, F being the requested name with the filtered variants: every
\* member of F is a key of the cache afterwards, every member that was no key
\* before has as its list F without itself, and the call returns F without the
\* requested name.
C31_FamilyPopulated ==
  [][\A outcome \in FamilyOutcomes :
       (nameService = "family" /\ FetchAnswered(outcome) /\ FetchSettle(outcome)) =>
         LET F == FamilyOf(lookup.normalizedName, outcome.bindings)
         IN  /\ F \subseteq DOMAIN cache'
             /\ \A m \in F \ DOMAIN cache : ListsExactly(cache'[m], F \ {m})
             /\ lookup'.outcome = "returned"
             /\ ListsExactly(lookup'.value, F \ {lookup.normalizedName})]_vars

\* C31 witness: a family lookup was answered with two variants; one of them
\* got the rest of the family as its list, the other was a key before and has
\* another list
C31_Witness ==
  /\ LookupDone
  /\ nameService = "family"
  /\ lookup.fetched
  /\ lookup.response = "ok"
  /\ Cardinality(Returned) = 2
  /\ Returned \subseteq DOMAIN cache
  /\ \E b \in Returned :
       ListsExactly(cache[b], (Returned \cup {lookup.normalizedName}) \ {b})
  /\ \E b \in Returned :
       Members(cache[b]) # (Returned \cup {lookup.normalizedName}) \ {b}

(***************************************************************************)
(* The enrichment pass of the seed script (part_000 lines 441-491).        *)
(***************************************************************************)
\* The first name the enrichment reads from a book (part_000 line 466)
BookFirstName(book) == EnrichBook(book, variantsMap).authorFirstName

\* The bulk request of this run has been answered: every sample book whose
\* item the engine did not refuse is a document of the index, and the books
\* of an author whose lookup timed out or got an error status have no variants
BooksIndexed ==
  seedRun.pc \in {"count", "complete"} =>
    /\ INDEX_NAME \in DOMAIN indices
    /\ \A i \in DOMAIN SeedBooks \ seedRun.errors :
         \E k \in DOMAIN indices[INDEX_NAME] :
           LET doc == indices[INDEX_NAME][k]
           IN  /\ doc._id = <<seedRun.run, i>>
               /\ doc._source.title = SeedBooks[i].title
               /\ doc._source.author = SeedBooks[i].author
               /\ BookFirstName(SeedBooks[i]) \in history.failed =>
                    doc._source.nameVariants = <<>>

\* C32: in the enrichment pass an external request is sent only for a name
\* that has not been looked up in this pass and is no key of the cache (no
\* second request after a failure, none for a name that came back as a member
\* of an earlier family), one call at a time; no lookup ends the run, which
\* can only fail at the bulk request after the last name; and the books of a
\* name whose lookup failed are indexed with an empty nameVariants.
C32_EnrichmentPass ==
  /\ []BooksIndexed
  /\ [][/\ (seedRun.pc = "lookups" /\ lookup'.pc = "fetch" /\ lookup.pc # "fetch") =>
             /\ lookup.pc = "idle"
             /\ lookup'.normalizedName \notin DOMAIN cache
             /\ lookup'.normalizedName \notin DOMAIN variantsMap
             /\ lookup'.normalizedName \notin history.failed
             /\ \A p \in history.pairs : p[2] # lookup'.normalizedName
        /\ (seedRun.pc = "lookups" /\ seedRun'.pc # "lookups") =>
             /\ NamesLeft = <<>>
             /\ lookup.pc = "idle"
             /\ \A k \in DOMAIN UniqueFirstNames(SeedBooks) :
                  UniqueFirstNames(SeedBooks)[k] \in DOMAIN variantsMap]_vars

\* C32 witness: a run is complete in which the lookup of one name timed out,
\* another name was not requested because an earlier family held it, and
\* every book is indexed
C32_Witness ==
  /\ SeedComplete
  /\ seedRun.errors = {}
  /\ history.failed # {}
  /\ \E p \in history.pairs :
       /\ p[2] \in DOMAIN variantsMap
       /\ variantsMap[p[2]] # <<>>
       /\ p[1] \in Members(variantsMap[p[2]])
  /\ Len(indices[INDEX_NAME]) = Len(SeedBooks)
  /\ \E k \in DOMAIN indices[INDEX_NAME] :
       /\ indices[INDEX_NAME][k]._source.authorFirstName \in history.failed
       /\ indices[INDEX_NAME][k]._source.nameVariants = <<>>

(***************************************************************************)
(* The schema createIndex asks for.                                        *)
(***************************************************************************)
IndexCreated == seedRun.body # NoCreateBody

\* The phonetic analyzer and the phonetic sub-fields of title and author
PhoneticParts(body) ==
  <<"phonetic_analyzer" \in body.analyzers, "phonetic" \in body.titleFields,
    "phonetic" \in body.authorFields>>

\* C33 (as claimed): the run never fails at the probe for the phonetic
\* plugin; the index is created with the three analyzers that do not depend
\* on it; the phonetic analyzer and the phonetic sub-fields of title and
\* author are all there if the probe reported the plugin, and none of them is
\* there if the probe threw or reported no such plugin.
C33_SchemaFollowsProbe ==
  /\ seedRun.failedAt # "plugins"
  /\ IndexCreated =>
       /\ {"swedish_analyzer", "autocomplete_index", "autocomplete_search"}
            \subseteq seedRun.body.analyzers
       /\ PhoneticParts(seedRun.body) =
            IF seedRun.probe = "phonetic" THEN <<TRUE, TRUE, TRUE>>
            ELSE <<FALSE, FALSE, FALSE>>

\* What holds of the schema: it follows the flag the script computed, and the
\* flag is false unless the probe reported the plugin
SchemaFollowsFlag ==
  /\ seedRun.failedAt # "plugins"
  /\ seedRun.hasPhoneticPlugin => seedRun.probe = "phonetic"
  /\ IndexCreated =>
       /\ {"swedish_analyzer", "autocomplete_index", "autocomplete_search"}
            \subseteq seedRun.body.analyzers
       /\ PhoneticParts(seedRun.body) =
            IF seedRun.hasPhoneticPlugin THEN <<TRUE, TRUE, TRUE>>
            ELSE <<FALSE, FALSE, FALSE>>
       /\ (~isOpenSearch) => (seedRun.hasPhoneticPlugin <=> seedRun.probe = "phonetic")

(***************************************************************************)
(* The capability flag of the serving process.                             *)
(***************************************************************************)
\* C34: hasPhoneticFields is false until the startup probe has completed; the
\* probe sets it once, to true exactly when the call succeeded and the mapping
\* of title has a phonetic sub-field, and to false when the call failed; no
\* other step changes it and the probe does not run again.
C34_FlagSetOnce ==
  /\ [](phoneticProbe = "pending" => ~hasPhoneticFields)
  /\ [][/\ \A outcome \in ProbeOutcomes :
             checkPhoneticSupport(outcome) =>
               hasPhoneticFields' = (outcome = "phonetic")
        /\ phoneticProbe # "pending" =>
             /\ hasPhoneticFields' = hasPhoneticFields
             /\ phoneticProbe' = phoneticProbe]_vars

\* The probe has found the sub-field through the OpenSearch client and a
\* request is being served with the flag set
C34_Witness ==
  /\ phoneticProbe = "done"
  /\ hasPhoneticFields
  /\ isOpenSearch
  /\ pc # "idle"

(***************************************************************************)
(* The seed script with USE_WIKIDATA=false.                                *)
(***************************************************************************)
\* C38 (as claimed): in a run of the seed script with USE_WIKIDATA set to
\* 'false' no request to the external endpoint is in flight during the
\* enrichment, and every name is answered from the cache as it was at module
\* load.
C38_NoRequestWhenDisabled ==
  (seedRun.pc = "lookups" /\ ~seedRun.USE_WIKIDATA) =>
    /\ lookup.pc # "fetch"
    /\ ~lookup.fetched

(***************************************************************************)
(* The page with its searches answered: the result counts, the sort order  *)
(* and the page buttons.  A request is answered before the next is sent.   *)
(***************************************************************************)
PagingQueries == {<<"h", "u">>, <<"t", "h", "r">>}
ClientSorts == {"rating"}

NextPaging ==
  \/ \E query \in PagingQueries : handleInput(query)
  \/ QuietNetwork /\ DebounceFires
  \/ \E r \in fetches : FetchSuggestionsSettle(r, TRUE)
  \/ \E r \in searches, outcome \in SearchOutcomes : FetchSearchSettle(r, outcome)
  \/ \E el \in RenderedElements(SuggestResponse(dropdown.q)) :
       QuietNetwork /\ handleSuggestionClick(el)
  \/ QuietNetwork /\ ClickChipRemove
  \/ QuietNetwork /\ ClearFilters
  \/ QuietNetwork /\ clearAll
  \/ \E sort \in ClientSorts : QuietNetwork /\ SortChange(sort)
  \/ QuietNetwork /\ PrevPage
  \/ QuietNetwork /\ NextPage

SpecPaging == InitPlain /\ [][NextPaging]_vars

\* The filter lists, the sort order or the page of the state object change
FiltersChange ==
  \/ client'.authors # client.authors
  \/ client'.genres # client.genres
  \/ client'.years # client.years
SelectionChanges ==
  FiltersChange \/ client'.sort # client.sort \/ client'.page # client.page

\* What the server reads from request r is the query, the filter lists, the
\* sort order and the page of state c
Carries(r, c) ==
  LET s == ReqQuery(r.params)
  IN  /\ s.q = (IF c.query = <<>> THEN Undefined ELSE c.query)
      /\ s.authors = (IF c.authors = <<>> THEN Undefined ELSE Join(c.authors, ","))
      /\ s.genres = (IF c.genres = <<>> THEN Undefined ELSE Join(c.genres, ","))
      /\ s.years = (IF c.years = <<>> THEN Undefined ELSE Join(YearTexts(c.years), ","))
      /\ s.sort = (IF c.sort = "" THEN "undefined" ELSE c.sort)
      /\ ParseInt(s.page) = c.page
      /\ ParseInt(s.size) = pageSize

\* C35: every step that changes a filter list, the sort order or the page
\* sends, when the state then has a query or a filter, a search request that
\* carries the query, the filters, the sort order and the page of the state
\* after the change; a change of a filter list or of the sort order leaves
\* the page at 1.
C35_ChangeTriggersSearch ==
  [][SelectionChanges =>
       /\ (client'.query # <<>> \/ ~NoFilters(client')) =>
            \E r \in searches' \ searches : r.newest /\ Carries(r, client')
       /\ (FiltersChange \/ client'.sort # client.sort) => client'.page = 1]_vars

\* C35 witness: with a genre filter and the sort order set, the next-page
\* button has sent the request for page 2
C35_Witness ==
  /\ clientEvent.kind = "nextPage"
  /\ client.page = 2
  /\ client.sort = "rating"
  /\ client.genres # <<>>
  /\ \E r \in searches : Carries(r, client)

(***************************************************************************)
(* The filter lists on their way to the server.                            *)
(***************************************************************************)
\* The lists the suggest handler and the search handler parse from request r
\* (nameVariants.js lines 418-423 and 646-649) are the lists of state c
ParsedAs(r, c) ==
  LET parsed == ParseActiveFilters(ReqQuery(r.params))
  IN  /\ parsed.authors = c.authors
      /\ parsed.genres = c.genres
      /\ parsed.years = c.years

RoundTrips ==
  \A r \in (searches' \ searches) \cup (fetches' \ fetches) : ParsedAs(r, client')

\* C39 (as claimed): for every request the page sends, the author, genre and
\* year lists the server parses from its parameters are the lists of the
\* state object, value for value.
C39_FiltersRoundTrip == [][RoundTrips]_vars

\* What holds: the lists round-trip when no author and no genre of the state
\* has a comma in it
HasComma(list) == \E i \in DOMAIN list : \E k \in DOMAIN list[i] : list[i][k] = ","
RoundTripWithoutComma ==
  [][(~HasComma(client'.authors) /\ ~HasComma(client'.genres)) => RoundTrips]_vars

(***************************************************************************)
(* The page number.                                                        *)
(***************************************************************************)
LastPage(total) == Max(1, TotalPages(total))

\* The page is at least 1
PageAtLeastOne == client.page >= 1

\* With the response of the last search applied, the page is not beyond the
\* last page of the count it brought
PageWithinResults ==
  (searches = {} /\ results.view = "books" /\ client.totalResults # NaN) =>
    client.page <= LastPage(client.totalResults)

\* A request that is sent asks for a page the result set it queries has
RequestsWithinResults ==
  \A r \in searches' \ searches :
    ParseInt(r.params.page) <= LastPage(CatalogTotal(ReqQuery(r.params)))

\* C40 (as claimed): the page of the state object is at least 1 and, once the
\* response of the last search has been applied, at most
\* max(1, ceil(totalResults / 12)); no search request is sent for a page
\* beyond the last page of the result set it queries.
C40_PageWithinBounds ==
  /\ [](PageAtLeastOne /\ PageWithinResults)
  /\ [][RequestsWithinResults]_vars

(***************************************************************************)
(* Responses in any order: a second request of a kind is sent while the    *)
(* first is in flight.                                                     *)
(***************************************************************************)
AtMostOne(S) == \A a, b \in S : a = b

NextRace ==
  \/ \E query \in PagingQueries : handleInput(query)
  \/ AtMostOne(fetches) /\ DebounceFires
  \/ \E r \in fetches : FetchSuggestionsSettle(r, TRUE)
  \/ \E r \in searches : FetchSearchSettle(r, "ok")
  \/ \E el \in RenderedElements(SuggestResponse(dropdown.q)) :
       AtMostOne(fetches) /\ AtMostOne(searches) /\ handleSuggestionClick(el)
  \/ \E sort \in ClientSorts : AtMostOne(searches) /\ SortChange(sort)

SpecRace == InitPlain /\ [][NextRace]_vars

\* C36 (as claimed): when the last suggest request in flight is answered, the
\* suggestions rendered from its response are those of the suggest request
\* sent last; when the last search request in flight is answered, the books
\* and the count taken from its response are those of the search request
\* sent last.
C36_LatestRequestWins ==
  [][/\ \A r \in fetches :
          (FetchSuggestionsSettle(r, TRUE) /\ fetches' = {}) => r.newest
     /\ \A r \in searches :
          (FetchSearchSettle(r, "ok") /\ searches' = {}) => r.newest]_vars

\* Each kind apart
LatestSuggestWins ==
  [][\A r \in fetches : (FetchSuggestionsSettle(r, TRUE) /\ fetches' = {}) => r.newest]_vars
LatestSearchWins ==
  [][\A r \in searches : (FetchSearchSettle(r, "ok") /\ searches' = {}) => r.newest]_vars

(***************************************************************************)
(* Two calls of getNameVariants that overlap.                              *)
(***************************************************************************)
OverlapInputs == {<<"D", "a", "n">>, <<"Z", "l", "a", "t", "a", "n">>}
OverlapOutcomes ==
  {[kind |-> "abort", ok |-> FALSE, body |-> "none", bindings |-> <<>>],
   Response(TRUE, "results", <<Binding(<<"D", "a", "n">>)>>),
   Response(TRUE, "results", <<Binding(<<"Z", "l", "a", "t", "k", "o">>)>>)}

NextOverlap ==
  \/ \E firstName \in OverlapInputs : getNameVariants(firstName)
  \/ \E firstName \in OverlapInputs : OverlappingCall(firstName)
  \/ \E outcome \in OverlapOutcomes : FetchSettle(outcome)
  \/ \E outcome \in OverlapOutcomes : OverlapSettle(outcome)
  \/ NextLookup
  \/ OverlapReturn

SpecOverlap == InitSeed /\ [][NextOverlap]_vars

\* An entry of the cache stays, with its value
EntriesKept == \A n \in DOMAIN cache : n \in DOMAIN cache' /\ cache'[n] = cache[n]

\* C37 (as claimed): whatever the order in which overlapping calls of
\* getNameVariants run, a name that has a cache entry keeps it, with the same
\* value.
C37_EntriesNeverChange == [][EntriesKept]_vars

====
